---- MODULE Spec2Model ----
(***************************************************************************)
(* Model of the coprocessor DAG execution core of TiKV:                    *)
(*   - the pipeline builder   (tidb_query/src/executor/runner.rs)          *)
(*   - the execution runner   (tidb_query/src/executor/runner.rs)          *)
(*   - the response packaging (src/coprocessor/dag/mod.rs)                 *)
(*                                                                         *)
(* SpecBuild explores build_executors over bounded descriptor sequences.   *)
(* SpecRun explores one ExecutorsRunner driven by repeated calls of        *)
(* handle_request / handle_streaming_request, one loop iteration per step, *)
(* while the deadline may expire between any two steps.                    *)
(***************************************************************************)
EXTENDS Integers, Sequences, FiniteSets, TLC

VARIABLES
    \* ---- pipeline builder ----
    exec_descriptors,   \* Vec<tipb::Executor> handed to build_executors
    build_pc,           \* "ready" | "returned"
    build_result,       \* Result<Box<dyn Executor>> of build_executors
    \* ---- execution runner (struct ExecutorsRunner and its executor) ----
    batch_row_limit,    \* ExecutorsRunner.batch_row_limit (usize)
    deadline_expired,   \* whether Deadline::check() now fails
    deadline_inner,     \* ErrorInner variant that `deadline.check()?` yields:
                        \* the conversion is fixed by the build, and
                        \* ErrorInner offers these two variants only
    exec_stats,         \* ExecutorsRunner.exec_stats.scanned_rows_per_range
    source_rows,        \* number of rows the operator chain yields in total
    pulled,             \* rows the chain has yielded so far
    scanned_pending,    \* scan counter held by the chain, not yet collected
    \* ---- locals of the running call ----
    pc,                 \* "idle" | "handle_request" | "handle_streaming_request"
    record_cnt,
    chunks,             \* handle_request: Vec<Chunk>, a chunk = seq of rows
    chunk,              \* handle_streaming_request: the single Chunk
    finished,           \* handle_streaming_request: the finished flag
    \* ---- what the last call returned ----
    result,             \* value returned by the runner
    response,           \* value returned by DAGHandler (after packaging)
    \* ---- history ----
    calls,              \* number of calls started on this runner
    last_call,          \* "" | "request" | "stream"
    call_start,         \* value of pulled when the last call started
    first_pull,         \* outcome of the first executor.next() of the call
    expired_at,         \* value of pulled when the deadline expired, or -1
    reported,           \* sum of all scanned-row counts put in responses
    delivered,          \* rows of the chunks returned by the streaming calls
                        \* made so far, while stream_run was "open"
    stream_run,         \* "open": every call so far was a successful
                        \* streaming call and none reported finished;
                        \* "finished": the last of them did; "broken"
    \* ---- build_handler and the handler it returns ----
    enable_batch_if_possible,   \* argument of build_handler
    is_streaming,               \* argument of build_handler
    collect_summaries,          \* req.get_collect_execution_summaries()
    eval_config_ok,             \* whether EvalConfig::from_request succeeds
    check_supported_ok,         \* whether check_supported(executors) is Ok
    batch_new_ok,               \* whether BatchDAGHandler::new succeeds
    handler_pc,                 \* "ready" | "built"
    handler,                    \* Result<Box<dyn RequestHandler>>
    handler_calls,              \* calls made on the normal handler's runner
    handler_out,                \* what the last of these calls returned
    \* ---- map_pb_sig_to_rpn_func ----
    sig_value,                  \* value: ScalarFuncSig
    sig_children,               \* children: &[Expr]
    sig_pc,                     \* "ready" | "returned"
    sig_result,                 \* Result<RpnFnMeta>
    \* ---- handle_request over a chain of scan, selection and limit ----
    plan_rows,          \* the rows of the range: whether each satisfies pred
    plan_limit,         \* the row count of the Limit descriptor
    plan_batch_row_limit,   \* batch_row_limit of the runner
    plan_executor,      \* the chain build_executors returned
    plan_state,         \* scan position, scan counter, limit cursor
    plan_chunks,        \* chunks of handle_request
    plan_record_cnt,    \* record_cnt of handle_request
    plan_pc,            \* "running" | "returned"
    plan_result,        \* what handle_request returned
    \* ---- table split check ----
    region_start,       \* region.get_start_key()
    region_end,         \* region.get_end_key(), <<>> for unbounded
    db,                 \* the encoded keys stored in the region
    checker,            \* the Checker added to the host, if any
    scan_rest,          \* keys of the region not yet fed to on_kv
    split_pc,           \* "start" | "scan" | "collect" | "done", or
                        \* "failed" (the last key could not be read),
                        \* "panic"
    split_out,          \* the split keys taken from the checker
    \* ---- handle_qe_stream_response ----
    qe_result,          \* result: what handle_streaming_request returned
    qe_pc,              \* "ready" | "returned"
    qe_response,        \* Result<(Option<Response>, bool)>
    \* ---- a Checker and the keys fed to it ----
    ck_created,         \* the Checker as add_checker created it
    ck_self,            \* the Checker now
    ck_before,          \* the Checker before the last on_kv
    ck_fed,             \* the encoded keys fed to on_kv so far
    ck_ret,             \* what the last on_kv returned
    ck_ops,             \* the calls made on the Checker, in order, each
                        \* with the keys it returned (split_keys)
    \* ---- add_checker, from `let encoded_start_key` on ----
    add_start_key,      \* encoded_start_key = region.get_start_key()
    add_end_key,        \* encoded_end_key = keys::origin_key(&end_key)
    add_pc,             \* "ready" | "returned" | "panic"
    added               \* the Checker added to the host, if any

build_vars == <<exec_descriptors, build_pc, build_result>>

run_vars == <<batch_row_limit, deadline_expired, deadline_inner, exec_stats,
              source_rows, pulled, scanned_pending, pc, record_cnt, chunks,
              chunk, finished, result, response, calls, last_call,
              call_start, first_pull, expired_at, reported, delivered,
              stream_run>>

handler_vars == <<enable_batch_if_possible, is_streaming, collect_summaries,
                  eval_config_ok, check_supported_ok, batch_new_ok,
                  handler_pc, handler, handler_calls, handler_out>>

sig_vars == <<sig_value, sig_children, sig_pc, sig_result>>

plan_vars == <<plan_rows, plan_limit, plan_batch_row_limit, plan_executor,
               plan_state, plan_chunks, plan_record_cnt, plan_pc,
               plan_result>>

split_vars == <<region_start, region_end, db, checker, scan_rest, split_pc,
                split_out>>

qe_vars == <<qe_result, qe_pc, qe_response>>

ck_vars == <<ck_created, ck_self, ck_before, ck_fed, ck_ret, ck_ops>>

add_vars == <<add_start_key, add_end_key, add_pc, added>>

vars == <<build_vars, run_vars, handler_vars, sig_vars, plan_vars,
          split_vars, qe_vars, ck_vars, add_vars>>

----------------------------------------------------------------------------
(* Bounds *)

MaxDescs == 3     \* longest descriptor sequence explored
MaxRows == 4      \* most rows the operator chain yields
MaxLimit == 3     \* largest batch_row_limit explored
MaxCalls == 3     \* most calls made on one runner
MaxPlanDescs == 2 \* longest descriptor sequence of a request to build_handler
MaxHandlerCalls == 2  \* most calls made on the handler of build_handler
MaxChildren == 3  \* most children of an expression given to the dispatch
MaxPlanRows == 4  \* most rows in the range of the scan-selection-limit plan
MaxPlanLimit == 3 \* largest row count of the Limit descriptor
MaxTable == 3     \* largest table id with keys in the store

----------------------------------------------------------------------------
(* Pipeline builder                                                        *)

\* tipb::ExecType
ExecType == {"TypeTableScan", "TypeIndexScan", "TypeSelection",
             "TypeAggregation", "TypeStreamAgg", "TypeTopN", "TypeLimit"}

\* Mutant: build_first_executor accepts a table scan only.
FirstExecTypes_TableOnly == {"TypeTableScan"}

\* The match arms of build_first_executor that build a leaf.
FirstExecTypes == {"TypeTableScan", "TypeIndexScan"}

\* Mutant: a scan is accepted in a non-first position.
NonFirstExecTypes_WithScan ==
    {"TypeSelection", "TypeAggregation", "TypeStreamAgg", "TypeTopN",
     "TypeLimit", "TypeTableScan"}

\* The match arms of the loop of build_executors that wrap the chain.
NonFirstExecTypes ==
    {"TypeSelection", "TypeAggregation", "TypeStreamAgg", "TypeTopN",
     "TypeLimit"}

\* Stage constructors whose result is unwrapped with `?`: table_scan,
\* index_scan, SelectionExecutor::new, HashAggExecutor::new,
\* StreamAggExecutor::new, TopNExecutor::new.  LimitExecutor::new returns
\* the executor itself and cannot fail.
FallibleCtor(tp) == tp # "TypeLimit"

\* A descriptor: its type, and whether the constructor of its stage accepts
\* the stage-specific configuration it carries.
Descriptor ==
    {d \in [tp : ExecType, ctor_ok : BOOLEAN] :
        (~FallibleCtor(d.tp)) => d.ctor_ok}

BuildOk(executor) == [ok |-> TRUE, err |-> "", executor |-> executor]
BuildErr(msg) == [ok |-> FALSE, err |-> msg, executor |-> <<>>]

\* Mutant: every stage reports into the slot of the leaf.
Stage_leaf_slot(tp, slot, child) ==
    [tp |-> tp, summary_slot_index |-> 0, child |-> child]

\* One stage of the chain.  The chain is the sequence of its stages, the
\* leaf first; child is the position of the stage it owns (0 for the leaf).
Stage(tp, slot, child) ==
    [tp |-> tp, summary_slot_index |-> slot, child |-> child]

\* Mutant: every new stage is handed the leaf instead of the chain built so
\* far.
wrap_src_leaf_only(src, tp, slot) == Append(src, Stage(tp, slot, 1))

\* One turn of the loop of build_executors: the constructor of the new
\* stage takes ownership of src, and `src = curr`.
wrap_src(src, tp, slot) == Append(src, Stage(tp, slot, Len(src)))

build_first_executor(first) ==
    IF first.tp \in FirstExecTypes
    THEN IF first.ctor_ok
         THEN BuildOk(<<Stage(first.tp, 0, 0)>>)
         ELSE BuildErr("constructor error")
    ELSE BuildErr("Unexpected first scanner")

\* The for loop of build_executors, from descriptor i on; src is the chain
\* built so far.
RECURSIVE build_loop(_, _, _, _)
build_loop(descs, i, src, summary_slot_index) ==
    IF i > Len(descs)
    THEN BuildOk(src)
    ELSE LET exec == descs[i]
             slot == summary_slot_index + 1
         IN IF exec.tp \in NonFirstExecTypes
            THEN IF exec.ctor_ok
                 THEN build_loop(descs, i + 1,
                                 wrap_src(src, exec.tp, slot), slot)
                 ELSE BuildErr("constructor error")
            ELSE BuildErr("Unexpected non-first executor")

build_executors(descs) ==
    IF descs = <<>>
    THEN BuildErr("No executor specified")
    ELSE LET first == build_first_executor(descs[1])
         IN IF first.ok
            THEN build_loop(descs, 2, first.executor, 0)
            ELSE first

DescriptorSeqs ==
    UNION {[1..n -> Descriptor] : n \in 0..MaxDescs}

NotBuilt == BuildErr("not built")

BuildInit ==
    /\ exec_descriptors \in DescriptorSeqs
    /\ build_pc = "ready"
    /\ build_result = NotBuilt

\* A call of build_executors.
BuildExecutors ==
    /\ build_pc = "ready"
    /\ build_result' = build_executors(exec_descriptors)
    /\ build_pc' = "returned"
    /\ UNCHANGED exec_descriptors

----------------------------------------------------------------------------
(* Execution runner                                                        *)

\* tidb_query::error::ErrorInner, matched exhaustively by handle_qe_response
ErrorInner == {"Evaluate", "Storage"}

RECURSIVE SumSeq(_)
SumSeq(s) == IF s = <<>> THEN 0 ELSE Head(s) + SumSeq(Tail(s))

RECURSIVE Flatten(_)
Flatten(ss) == IF ss = <<>> THEN <<>> ELSE Head(ss) \o Flatten(Tail(ss))

NoResult ==
    [tag |-> "none", inner |-> "", cause |-> "", has_resp |-> FALSE,
     chunks |-> <<>>, output_counts |-> <<>>, finished |-> FALSE]

\* Err(e) of tidb_query::Result
ResultErr(inner, cause) ==
    [NoResult EXCEPT !.tag = "Err", !.inner = inner, !.cause = cause]

\* Ok(sel_resp) of handle_request
ResultSelect(cs, counts) ==
    [NoResult EXCEPT !.tag = "Ok", !.has_resp = TRUE, !.chunks = cs,
                     !.output_counts = counts]

\* Ok((Some((s_resp, range)), finished)) of handle_streaming_request
ResultStreamSome(c, counts, fin) ==
    [NoResult EXCEPT !.tag = "Ok", !.has_resp = TRUE, !.chunks = <<c>>,
                     !.output_counts = counts, !.finished = fin]

\* Ok((None, true)) of handle_streaming_request
ResultStreamNone ==
    [NoResult EXCEPT !.tag = "Ok", !.finished = TRUE]

NoResponse ==
    [tag |-> "none", has_resp |-> FALSE, error |-> "", err_from |-> "",
     chunks |-> <<>>, output_counts |-> <<>>, finished |-> FALSE]

\* Mutant: the two arms of the error match are exchanged.
handle_qe_response_swapped(r) ==
    IF r.tag = "Ok"
    THEN [NoResponse EXCEPT !.tag = "Ok", !.has_resp = TRUE,
                            !.chunks = r.chunks,
                            !.output_counts = r.output_counts]
    ELSE IF r.inner = "Evaluate"
         THEN [NoResponse EXCEPT !.tag = "Err", !.err_from = r.inner]
         ELSE [NoResponse EXCEPT !.tag = "Ok", !.has_resp = TRUE,
                                 !.error = r.cause]

\* handle_qe_response: Ok is serialized into the Response; a Storage error
\* becomes the error of the request; an Evaluate error becomes a Response
\* whose SelectResponse carries only the error code and message.
\* write_to_bytes is taken to succeed: none of the messages serialized here
\* has a required field.
handle_qe_response(r) ==
    IF r.tag = "Ok"
    THEN [NoResponse EXCEPT !.tag = "Ok", !.has_resp = TRUE,
                            !.chunks = r.chunks,
                            !.output_counts = r.output_counts]
    ELSE IF r.inner = "Storage"
         THEN [NoResponse EXCEPT !.tag = "Err", !.err_from = r.inner]
         ELSE [NoResponse EXCEPT !.tag = "Ok", !.has_resp = TRUE,
                                 !.error = r.cause]

\* Mutant: the None arm reports finished whatever the flag it was given.
handle_qe_stream_response_none_finished(r) ==
    IF r.tag = "Ok"
    THEN IF r.has_resp
         THEN [NoResponse EXCEPT !.tag = "Ok", !.has_resp = TRUE,
                                 !.chunks = r.chunks,
                                 !.output_counts = r.output_counts,
                                 !.finished = r.finished]
         ELSE [NoResponse EXCEPT !.tag = "Ok", !.finished = TRUE]
    ELSE IF r.inner = "Storage"
         THEN [NoResponse EXCEPT !.tag = "Err", !.err_from = r.inner]
         ELSE [NoResponse EXCEPT !.tag = "Ok", !.has_resp = TRUE,
                                 !.error = r.cause, !.finished = TRUE]

\* handle_qe_stream_response: Ok((Some, finished)) is serialized with its
\* flag, Ok((None, finished)) is returned as it is, a Storage error becomes
\* the error of the request, an Evaluate error becomes a Response carrying
\* the error code and message, with finished = true.
handle_qe_stream_response(r) ==
    IF r.tag = "Ok"
    THEN IF r.has_resp
         THEN [NoResponse EXCEPT !.tag = "Ok", !.has_resp = TRUE,
                                 !.chunks = r.chunks,
                                 !.output_counts = r.output_counts,
                                 !.finished = r.finished]
         ELSE [NoResponse EXCEPT !.tag = "Ok", !.finished = r.finished]
    ELSE IF r.inner = "Storage"
         THEN [NoResponse EXCEPT !.tag = "Err", !.err_from = r.inner]
         ELSE [NoResponse EXCEPT !.tag = "Ok", !.has_resp = TRUE,
                                 !.error = r.cause, !.finished = TRUE]

\* Executor::collect_exec_stats: the chain hands its per-range scan
\* counters over to the statistics.
collect_exec_stats(stats, pending) == Append(stats, pending)

\* ExecuteStats::clear
clear(stats) == <<>>

\* Mutant: the statistics are left as they are after the response is made.
stats_after_select_response_kept(stats) == stats

\* handle_request, "In case of this function is called multiple times."
stats_after_select_response(stats) == clear(stats)

\* make_stream_response, the statistics after the response is made.
stats_after_stream_response(stats) == clear(stats)

\* Mutant: a new chunk is opened one row late.
need_new_chunk_late(cs, cnt, limit) == cs = <<>> \/ cnt > limit

\* handle_request: `chunks.is_empty() || record_cnt >= self.batch_row_limit`
need_new_chunk(cs, cnt, limit) == cs = <<>> \/ cnt >= limit

\* Mutant: opening a new chunk discards the chunks that are full.
push_row_forgetful(cs, cnt, limit, row) ==
    IF need_new_chunk(cs, cnt, limit)
    THEN <<<<row>>>>
    ELSE [cs EXCEPT ![Len(cs)] = Append(@, row)]

\* handle_request, Some(row): a new chunk is pushed if needed and the row
\* is written at the end of the last chunk.
push_row(cs, cnt, limit, row) ==
    LET cs1 == IF need_new_chunk(cs, cnt, limit)
               THEN Append(cs, <<>>)
               ELSE cs
    IN [cs1 EXCEPT ![Len(cs1)] = Append(@, row)]

\* handle_request, Some(row): record_cnt after the row is written.
next_record_cnt(cs, cnt, limit) ==
    IF need_new_chunk(cs, cnt, limit) THEN 1 ELSE cnt + 1

\* Mutant: the response carries no scanned-row counts.
select_output_counts_none(stats) == <<>>

\* handle_request: output_counts is scanned_rows_per_range, one per range.
select_output_counts(stats) == stats

\* Mutant: the loop pulls one row more than the limit.
stream_loop_cond_inclusive(cnt, limit) == cnt <= limit

\* handle_streaming_request: `while record_cnt < self.batch_row_limit`
stream_loop_cond(cnt, limit) == cnt < limit

\* Mutant: a response is made of an empty chunk too.
stream_has_rows_always(cnt) == cnt >= 0

\* handle_streaming_request: `if record_cnt > 0`
stream_has_rows(cnt) == cnt > 0

\* Mutant: the deadline is not checked.
deadline_check_skipped(expired) == TRUE

\* Deadline::check() succeeds while the deadline has not expired.
deadline_check(expired) == ~expired

params == <<batch_row_limit, deadline_inner, source_rows>>

RunInit ==
    /\ batch_row_limit \in 0..MaxLimit
    /\ source_rows \in 0..MaxRows
    /\ deadline_inner \in ErrorInner
    /\ deadline_expired = FALSE
    /\ exec_stats = <<>>
    /\ pulled = 0
    /\ scanned_pending = 0
    /\ pc = "idle"
    /\ record_cnt = 0
    /\ chunks = <<>>
    /\ chunk = <<>>
    /\ finished = FALSE
    /\ result = NoResult
    /\ response = NoResponse
    /\ calls = 0
    /\ last_call = ""
    /\ call_start = 0
    /\ first_pull = ""
    /\ expired_at = -1
    /\ reported = 0
    /\ delivered = <<>>
    /\ stream_run = "open"

\* The clock passes the deadline.
Expire ==
    /\ ~deadline_expired
    /\ deadline_expired' = TRUE
    /\ expired_at' = pulled
    /\ UNCHANGED <<params, exec_stats, pulled, scanned_pending, pc,
                   record_cnt, chunks, chunk, finished, result, response,
                   calls, last_call, call_start, first_pull, reported, delivered,
                   stream_run>>

NoteFirstPull(outcome) ==
    first_pull' = IF first_pull = "" THEN outcome ELSE first_pull

\* The executor yields its next row.
PullRow ==
    /\ pulled < source_rows
    /\ pulled' = pulled + 1
    /\ scanned_pending' = scanned_pending + 1
    /\ NoteFirstPull("row")

\* What the caller of a run of streaming calls has received when a call
\* of the given kind returns r.
NoteReturn(kind, r) ==
    IF stream_run # "open"
    THEN UNCHANGED <<delivered, stream_run>>
    ELSE IF kind = "stream" /\ r.tag = "Ok"
    THEN /\ delivered' = delivered \o Flatten(r.chunks)
         /\ stream_run' = IF r.finished THEN "finished" ELSE "open"
    ELSE /\ delivered' = delivered
         /\ stream_run' = "broken"

\* The call returns r; DAGHandler packages it.
ReturnSelect(r) ==
    /\ pc' = "idle"
    /\ result' = r
    /\ response' = handle_qe_response(r)
    /\ NoteReturn("request", r)

ReturnStream(r) ==
    /\ pc' = "idle"
    /\ result' = r
    /\ response' = handle_qe_stream_response(r)
    /\ NoteReturn("stream", r)

\* A call starts on the idle runner, the cap-th call at the latest.
StartCallWithin(kind, cap) ==
    /\ pc = "idle"
    /\ calls < cap
    /\ calls' = calls + 1
    /\ last_call' = kind
    /\ call_start' = pulled
    /\ first_pull' = ""
    /\ record_cnt' = 0
    /\ chunks' = <<>>
    /\ chunk' = <<>>
    /\ finished' = FALSE
    /\ result' = NoResult
    /\ response' = NoResponse
    /\ UNCHANGED <<params, deadline_expired, expired_at, exec_stats, pulled,
                   scanned_pending, reported, delivered,
                   stream_run>>

StartCall(kind) == StartCallWithin(kind, MaxCalls)

----------------------------------------------------------------------------
(* DAGHandler::handle_request = handle_qe_response(runner.handle_request()) *)

CallHandleRequest ==
    /\ StartCall("request")
    /\ pc' = "handle_request"

\* `self.executor.next()?` fails.
ReqNextErr ==
    /\ pc = "handle_request"
    /\ \E inner \in ErrorInner : ReturnSelect(ResultErr(inner, "next"))
    /\ NoteFirstPull("err")
    /\ UNCHANGED <<params, deadline_expired, expired_at, exec_stats, pulled,
                   scanned_pending, record_cnt, chunks, chunk, finished,
                   calls, last_call, call_start, reported>>

\* Some(row), and `self.deadline.check()?` fails.
ReqRowDeadline ==
    /\ pc = "handle_request"
    /\ PullRow
    /\ ~deadline_check(deadline_expired)
    /\ ReturnSelect(ResultErr(deadline_inner, "deadline"))
    /\ UNCHANGED <<params, deadline_expired, expired_at, exec_stats,
                   record_cnt, chunks, chunk, finished, calls, last_call,
                   call_start, reported>>

\* Some(row), the deadline holds and the row is appended to the last chunk.
ReqRowAppend ==
    /\ pc = "handle_request"
    /\ PullRow
    /\ deadline_check(deadline_expired)
    /\ record_cnt' = next_record_cnt(chunks, record_cnt, batch_row_limit)
    /\ chunks' = push_row(chunks, record_cnt, batch_row_limit, pulled')
    /\ UNCHANGED <<params, deadline_expired, expired_at, exec_stats, pc,
                   chunk, finished, result, response, calls, last_call,
                   call_start, reported, delivered,
                   stream_run>>

\* Some(row), the deadline holds and `row.get_binary(..)?` fails.
ReqRowEncodeErr ==
    /\ pc = "handle_request"
    /\ PullRow
    /\ deadline_check(deadline_expired)
    /\ \E inner \in ErrorInner : ReturnSelect(ResultErr(inner, "get_binary"))
    /\ UNCHANGED <<params, deadline_expired, expired_at, exec_stats,
                   record_cnt, chunks, chunk, finished, calls, last_call,
                   call_start, reported>>

\* None: the statistics are drained into the response and cleared.
ReqDone ==
    /\ pc = "handle_request"
    /\ pulled = source_rows
    /\ NoteFirstPull("none")
    /\ LET stats == collect_exec_stats(exec_stats, scanned_pending)
       IN /\ ReturnSelect(ResultSelect(chunks, select_output_counts(stats)))
          /\ reported' = reported + SumSeq(stats)
          /\ exec_stats' = stats_after_select_response(stats)
    /\ scanned_pending' = 0
    /\ UNCHANGED <<params, deadline_expired, expired_at, pulled, record_cnt,
                   chunks, chunk, finished, calls, last_call, call_start>>

----------------------------------------------------------------------------
(* DAGHandler::handle_streaming_request =                                  *)
(*   handle_qe_stream_response(runner.handle_streaming_request())          *)

CallHandleStreamingRequest ==
    /\ StartCall("stream")
    /\ pc' = "handle_streaming_request"

\* Calls enough to read every row of the source one row per call, and one
\* more.
StreamCallCap == MaxRows + 1

\* The caller's loop over streaming calls makes its next call.
NextStreamingCall ==
    /\ StartCallWithin("stream", StreamCallCap)
    /\ pc' = "handle_streaming_request"

InStreamLoop ==
    /\ pc = "handle_streaming_request"
    /\ ~finished
    /\ stream_loop_cond(record_cnt, batch_row_limit)

StreamNextErr ==
    /\ InStreamLoop
    /\ \E inner \in ErrorInner : ReturnStream(ResultErr(inner, "next"))
    /\ NoteFirstPull("err")
    /\ UNCHANGED <<params, deadline_expired, expired_at, exec_stats, pulled,
                   scanned_pending, record_cnt, chunks, chunk, finished,
                   calls, last_call, call_start, reported>>

StreamRowDeadline ==
    /\ InStreamLoop
    /\ PullRow
    /\ ~deadline_check(deadline_expired)
    /\ ReturnStream(ResultErr(deadline_inner, "deadline"))
    /\ UNCHANGED <<params, deadline_expired, expired_at, exec_stats,
                   record_cnt, chunks, chunk, finished, calls, last_call,
                   call_start, reported>>

StreamRowAppend ==
    /\ InStreamLoop
    /\ PullRow
    /\ deadline_check(deadline_expired)
    /\ record_cnt' = record_cnt + 1
    /\ chunk' = Append(chunk, pulled')
    /\ UNCHANGED <<params, deadline_expired, expired_at, exec_stats, pc,
                   chunks, finished, result, response, calls, last_call,
                   call_start, reported, delivered,
                   stream_run>>

StreamRowEncodeErr ==
    /\ InStreamLoop
    /\ PullRow
    /\ deadline_check(deadline_expired)
    /\ \E inner \in ErrorInner : ReturnStream(ResultErr(inner, "get_binary"))
    /\ UNCHANGED <<params, deadline_expired, expired_at, exec_stats,
                   record_cnt, chunks, chunk, finished, calls, last_call,
                   call_start, reported>>

\* Mutant: the None arm leaves `finished` false and the loop goes on.
finished_at_none_unset == FALSE

\* handle_streaming_request, the None arm: `finished = true`
finished_at_none == TRUE

\* None: `finished = true; break`
StreamNone ==
    /\ InStreamLoop
    /\ pulled = source_rows
    /\ NoteFirstPull("none")
    /\ finished' = finished_at_none
    /\ UNCHANGED <<params, deadline_expired, expired_at, exec_stats, pulled,
                   scanned_pending, pc, record_cnt, chunks, chunk, result,
                   response, calls, last_call, call_start, reported, delivered,
                   stream_run>>

\* After the loop: a chunk with rows goes through make_stream_response,
\* which drains and clears the statistics; otherwise Ok((None, true)).
StreamReturn ==
    /\ pc = "handle_streaming_request"
    /\ finished \/ ~stream_loop_cond(record_cnt, batch_row_limit)
    /\ IF stream_has_rows(record_cnt)
       THEN LET stats == collect_exec_stats(exec_stats, scanned_pending)
            IN /\ ReturnStream(ResultStreamSome(chunk, stats, finished))
               /\ reported' = reported + SumSeq(stats)
               /\ exec_stats' = stats_after_stream_response(stats)
               /\ scanned_pending' = 0
       ELSE /\ ReturnStream(ResultStreamNone)
            /\ UNCHANGED <<reported, exec_stats, scanned_pending>>
    /\ UNCHANGED <<params, deadline_expired, expired_at, pulled, record_cnt,
                   chunks, chunk, finished, calls, last_call, call_start,
                   first_pull>>

----------------------------------------------------------------------------
(* build_handler, DAGHandler::new, ExecutorsRunner::from_request            *)

\* ExecuteStats::new(n).summary_per_executor: n default summaries.  A
\* summary records the stage whose collector filled it (0: nobody yet).
DefaultSummary == [stage |-> 0, tp |-> ""]

new_summaries(n) == [i \in 1..n |-> DefaultSummary]

NoRunner ==
    [executor |-> <<>>, collect_exec_summary |-> FALSE,
     summary_per_executor |-> <<>>]

\* from_request: `if collect_exec_summary { executors_len } else { 0 }`
summary_slots(collect, executors_len) ==
    IF collect THEN executors_len ELSE 0

\* ExecutorsRunner::from_request.  The summary collector type of every
\* stage is ExecSummaryCollectorEnabled exactly when summaries are
\* requested; this is kept in collect_exec_summary.
from_request(descs, collect, config_ok) ==
    IF ~config_ok
    THEN [ok |-> FALSE, err |-> "EvalConfig", runner |-> NoRunner]
    ELSE LET built == build_executors(descs)
         IN IF built.ok
            THEN [ok |-> TRUE, err |-> "",
                  runner |-> [executor |-> built.executor,
                              collect_exec_summary |-> collect,
                              summary_per_executor |->
                                  new_summaries(
                                      summary_slots(collect, Len(descs)))]]
            ELSE [ok |-> FALSE, err |-> built.err, runner |-> NoRunner]

NoHandler ==
    [ok |-> FALSE, kind |-> "", err |-> "not built", constructed |-> {},
     runner |-> NoRunner]

\* Mutant: the batch strategy is attempted for streaming requests too.
batch_attempted_any_mode(enable, streaming) == enable

\* build_handler: `if enable_batch_if_possible && !is_streaming`
batch_attempted(enable, streaming) == enable /\ ~streaming

\* Mutant: a failed capability check is returned to the caller.
select_batch_strict(enable, streaming, supported) ==
    IF batch_attempted(enable, streaming)
    THEN IF supported THEN "batch" ELSE "error"
    ELSE "normal"

\* build_handler, the computation of is_batch.
select_batch(enable, streaming, supported) ==
    IF batch_attempted(enable, streaming)
    THEN IF supported THEN "batch" ELSE "normal"
    ELSE "normal"

\* Mutant: when the batch handler cannot be constructed the normal handler
\* is tried.
build_handler_retry(descs, enable, streaming, supported, batch_ok, collect, config_ok) ==
    LET sel == select_batch(enable, streaming, supported)
        r == from_request(descs, collect, config_ok)
        also == IF sel = "batch" /\ ~batch_ok THEN {"batch"} ELSE {}
    IN IF sel = "error"
       THEN [ok |-> FALSE, kind |-> "", err |-> "check_supported",
             constructed |-> {}, runner |-> NoRunner]
       ELSE IF sel = "batch" /\ batch_ok
       THEN [ok |-> TRUE, kind |-> "batch", err |-> "",
             constructed |-> {"batch"}, runner |-> NoRunner]
       ELSE IF r.ok
       THEN [ok |-> TRUE, kind |-> "normal", err |-> "",
             constructed |-> also \cup {"normal"}, runner |-> r.runner]
       ELSE [ok |-> FALSE, kind |-> "", err |-> r.err,
             constructed |-> also \cup {"normal"}, runner |-> NoRunner]

\* build_handler.  constructed is the set of handler constructors called.
build_handler(descs, enable, streaming, supported, batch_ok, collect, config_ok) ==
    LET sel == select_batch(enable, streaming, supported)
    IN IF sel = "error"
       THEN [ok |-> FALSE, kind |-> "", err |-> "check_supported",
             constructed |-> {}, runner |-> NoRunner]
       ELSE IF sel = "batch"
       THEN IF batch_ok
            THEN [ok |-> TRUE, kind |-> "batch", err |-> "",
                  constructed |-> {"batch"}, runner |-> NoRunner]
            ELSE [ok |-> FALSE, kind |-> "", err |-> "BatchDAGHandler::new",
                  constructed |-> {"batch"}, runner |-> NoRunner]
       ELSE LET r == from_request(descs, collect, config_ok)
            IN IF r.ok
               THEN [ok |-> TRUE, kind |-> "normal", err |-> "",
                     constructed |-> {"normal"}, runner |-> r.runner]
               ELSE [ok |-> FALSE, kind |-> "", err |-> r.err,
                     constructed |-> {"normal"}, runner |-> NoRunner]

\* Executor::collect_exec_stats with ExecSummaryCollectorEnabled: every
\* stage, from the outermost down to the leaf, puts its summary in the slot
\* of its summary_slot_index.
collect_summaries_into(executor, summaries) ==
    [i \in 1..Len(summaries) |->
        IF \E k \in 1..Len(executor) :
               executor[k].summary_slot_index + 1 = i
        THEN LET k == CHOOSE k \in 1..Len(executor) :
                          executor[k].summary_slot_index + 1 = i
             IN [stage |-> k, tp |-> executor[k].tp]
        ELSE summaries[i]]

\* ExecuteStats::clear on the summaries: every slot back to its default.
clear_summaries(summaries) ==
    [i \in 1..Len(summaries) |-> DefaultSummary]

NoOut ==
    [call |-> "", ok |-> FALSE, has_resp |-> FALSE,
     execution_summaries |-> <<>>]

\* handle_request, the None arm: the statistics are collected, the
\* summaries are copied into the response if requested, then cleared.
select_response_summaries(runner) ==
    IF runner.collect_exec_summary
    THEN collect_summaries_into(runner.executor, runner.summary_per_executor)
    ELSE <<>>

PlanSeqs ==
    UNION {[1..n -> Descriptor] : n \in 0..MaxPlanDescs}

HandlerInit ==
    /\ enable_batch_if_possible \in BOOLEAN
    /\ is_streaming \in BOOLEAN
    /\ collect_summaries \in BOOLEAN
    /\ eval_config_ok \in BOOLEAN
    /\ check_supported_ok \in BOOLEAN
    /\ batch_new_ok \in BOOLEAN
    /\ handler_pc = "ready"
    /\ handler = NoHandler
    /\ handler_calls = 0
    /\ handler_out = NoOut

handler_params ==
    <<enable_batch_if_possible, is_streaming, collect_summaries,
      eval_config_ok, check_supported_ok, batch_new_ok>>

\* A call of build_handler.
BuildHandler ==
    /\ handler_pc = "ready"
    /\ handler' = build_handler(exec_descriptors, enable_batch_if_possible,
                                is_streaming, check_supported_ok,
                                batch_new_ok, collect_summaries,
                                eval_config_ok)
    /\ handler_pc' = "built"
    /\ UNCHANGED <<handler_params, handler_calls, handler_out>>

NormalHandlerBuilt ==
    /\ handler_pc = "built"
    /\ handler.ok
    /\ handler.kind = "normal"
    /\ handler_calls < MaxHandlerCalls

\* A whole call of ExecutorsRunner::handle_request on the runner of the
\* normal handler: it fails on the way, or reaches the None arm.
HandlerHandleRequest ==
    /\ NormalHandlerBuilt
    /\ handler_calls' = handler_calls + 1
    /\ \E call_ok \in BOOLEAN :
          IF call_ok
          THEN /\ handler_out' =
                      [call |-> "request", ok |-> TRUE, has_resp |-> TRUE,
                       execution_summaries |->
                           select_response_summaries(handler.runner)]
               /\ handler' =
                      [handler EXCEPT !.runner.summary_per_executor =
                          clear_summaries(@)]
          ELSE /\ handler_out' = [NoOut EXCEPT !.call = "request"]
               /\ UNCHANGED handler
    /\ UNCHANGED <<handler_params, handler_pc>>

\* A whole call of ExecutorsRunner::handle_streaming_request: it fails,
\* returns (None, true), or returns what make_stream_response builds, which
\* sets data, warnings and output counts only.
HandlerHandleStreamingRequest ==
    /\ NormalHandlerBuilt
    /\ handler_calls' = handler_calls + 1
    /\ \E outcome \in {"err", "none", "some"} :
          /\ handler_out' =
                 [call |-> "stream", ok |-> outcome # "err",
                  has_resp |-> outcome = "some",
                  execution_summaries |-> <<>>]
          /\ handler' =
                 IF outcome = "some"
                 THEN [handler EXCEPT !.runner.summary_per_executor =
                          clear_summaries(@)]
                 ELSE handler
    /\ UNCHANGED <<handler_params, handler_pc>>

----------------------------------------------------------------------------
(* rpn_expr: map_pb_sig_to_rpn_func and the signed/unsigned dispatch       *)

\* A child expression, as far as the dispatch reads it: the UNSIGNED flag
\* of its field type.
Child == [unsigned : BOOLEAN]

ChildSeqs == UNION {[1..n -> Child] : n \in 0..MaxChildren}

\* Result<RpnFnMeta>; "Panic" is an index out of the bounds of children.
SigOk(routine) == [tag |-> "Ok", routine |-> routine]

SigErr(msg) == [tag |-> "Err", routine |-> <<>>]

SigPanic == [tag |-> "Panic", routine |-> <<>>]

NoSigResult == [tag |-> "none", routine |-> <<>>]

\* compare_mapper::<F> (rpn_expr/mod.rs:57)
compare_mapper(F, lhs_is_unsigned, rhs_is_unsigned) ==
    CASE ~lhs_is_unsigned /\ ~rhs_is_unsigned ->
             <<"compare_fn_meta", "BasicComparer<Int, F>", F>>
      [] ~lhs_is_unsigned /\ rhs_is_unsigned ->
             <<"compare_fn_meta", "IntUintComparer<F>", F>>
      [] lhs_is_unsigned /\ ~rhs_is_unsigned ->
             <<"compare_fn_meta", "UintIntComparer<F>", F>>
      [] lhs_is_unsigned /\ rhs_is_unsigned ->
             <<"compare_fn_meta", "UintUintComparer<F>", F>>

\* Mutant: an unsigned left operand always selects the routine for two
\* unsigned operands.
plus_mapper_unsigned_merged(lhs_is_unsigned, rhs_is_unsigned) ==
    CASE ~lhs_is_unsigned /\ ~rhs_is_unsigned -> <<"arithmetic_fn_meta", "IntIntPlus">>
      [] ~lhs_is_unsigned /\ rhs_is_unsigned -> <<"arithmetic_fn_meta", "IntUintPlus">>
      [] lhs_is_unsigned -> <<"arithmetic_fn_meta", "UintUintPlus">>

\* plus_mapper (rpn_expr/mod.rs:66)
plus_mapper(lhs_is_unsigned, rhs_is_unsigned) ==
    CASE ~lhs_is_unsigned /\ ~rhs_is_unsigned -> <<"arithmetic_fn_meta", "IntIntPlus">>
      [] ~lhs_is_unsigned /\ rhs_is_unsigned -> <<"arithmetic_fn_meta", "IntUintPlus">>
      [] lhs_is_unsigned /\ ~rhs_is_unsigned -> <<"arithmetic_fn_meta", "UintIntPlus">>
      [] lhs_is_unsigned /\ rhs_is_unsigned -> <<"arithmetic_fn_meta", "UintUintPlus">>

\* minus_mapper (rpn_expr/mod.rs:75)
minus_mapper(lhs_is_unsigned, rhs_is_unsigned) ==
    CASE ~lhs_is_unsigned /\ ~rhs_is_unsigned -> <<"arithmetic_fn_meta", "IntIntMinus">>
      [] ~lhs_is_unsigned /\ rhs_is_unsigned -> <<"arithmetic_fn_meta", "IntUintMinus">>
      [] lhs_is_unsigned /\ ~rhs_is_unsigned -> <<"arithmetic_fn_meta", "UintIntMinus">>
      [] lhs_is_unsigned /\ rhs_is_unsigned -> <<"arithmetic_fn_meta", "UintUintMinus">>

\* multiply_mapper (rpn_expr/mod.rs:84)
multiply_mapper(lhs_is_unsigned, rhs_is_unsigned) ==
    CASE ~lhs_is_unsigned /\ ~rhs_is_unsigned -> <<"arithmetic_fn_meta", "IntIntMultiply">>
      [] ~lhs_is_unsigned /\ rhs_is_unsigned -> <<"arithmetic_fn_meta", "IntUintMultiply">>
      [] lhs_is_unsigned /\ ~rhs_is_unsigned -> <<"arithmetic_fn_meta", "UintIntMultiply">>
      [] lhs_is_unsigned /\ rhs_is_unsigned -> <<"arithmetic_fn_meta", "UintUintMultiply">>

\* mod_mapper (rpn_expr/mod.rs:93)
mod_mapper(lhs_is_unsigned, rhs_is_unsigned) ==
    CASE ~lhs_is_unsigned /\ ~rhs_is_unsigned -> <<"arithmetic_fn_meta", "IntIntMod">>
      [] ~lhs_is_unsigned /\ rhs_is_unsigned -> <<"arithmetic_fn_meta", "IntUintMod">>
      [] lhs_is_unsigned /\ ~rhs_is_unsigned -> <<"arithmetic_fn_meta", "UintIntMod">>
      [] lhs_is_unsigned /\ rhs_is_unsigned -> <<"arithmetic_fn_meta", "UintUintMod">>

\* divide_mapper (rpn_expr/mod.rs:102)
divide_mapper(lhs_is_unsigned, rhs_is_unsigned) ==
    CASE ~lhs_is_unsigned /\ ~rhs_is_unsigned -> <<"arithmetic_fn_meta", "IntDivideInt">>
      [] ~lhs_is_unsigned /\ rhs_is_unsigned -> <<"arithmetic_fn_meta", "IntDivideUint">>
      [] lhs_is_unsigned /\ ~rhs_is_unsigned -> <<"arithmetic_fn_meta", "UintDivideInt">>
      [] lhs_is_unsigned /\ rhs_is_unsigned -> <<"arithmetic_fn_meta", "UintDivideUint">>

\* Mutant: the number of children is not checked.
arity_mismatch_ignored(children) == FALSE

\* map_int_sig: `if children.len() != 2`
arity_mismatch(children) == Len(children) # 2

\* map_int_sig.  children[0] and children[1] of the source are children[1]
\* and children[2] here; reading one that does not exist panics.  The
\* mapper is passed as the function of the two flags.
map_int_sig(value, children, mapper) ==
    IF arity_mismatch(children)
    THEN SigErr("params")
    ELSE IF Len(children) < 2
    THEN SigPanic
    ELSE SigOk(mapper[children[1].unsigned, children[2].unsigned])

\* The arms of map_pb_sig_to_rpn_func that name one routine.
DirectSigs ==
       "LTReal" :> <<"compare_fn_meta", "BasicComparer<Real, CmpOpLT>">>
    @@ "LTDecimal" :> <<"compare_fn_meta", "BasicComparer<Decimal, CmpOpLT>">>
    @@ "LTString" :> <<"compare_fn_meta", "BasicComparer<Bytes, CmpOpLT>">>
    @@ "LTTime" :> <<"compare_fn_meta", "BasicComparer<DateTime, CmpOpLT>">>
    @@ "LTDuration" :> <<"compare_fn_meta", "BasicComparer<Duration, CmpOpLT>">>
    @@ "LTJson" :> <<"compare_fn_meta", "BasicComparer<Json, CmpOpLT>">>
    @@ "LEReal" :> <<"compare_fn_meta", "BasicComparer<Real, CmpOpLE>">>
    @@ "LEDecimal" :> <<"compare_fn_meta", "BasicComparer<Decimal, CmpOpLE>">>
    @@ "LEString" :> <<"compare_fn_meta", "BasicComparer<Bytes, CmpOpLE>">>
    @@ "LETime" :> <<"compare_fn_meta", "BasicComparer<DateTime, CmpOpLE>">>
    @@ "LEDuration" :> <<"compare_fn_meta", "BasicComparer<Duration, CmpOpLE>">>
    @@ "LEJson" :> <<"compare_fn_meta", "BasicComparer<Json, CmpOpLE>">>
    @@ "GTReal" :> <<"compare_fn_meta", "BasicComparer<Real, CmpOpGT>">>
    @@ "GTDecimal" :> <<"compare_fn_meta", "BasicComparer<Decimal, CmpOpGT>">>
    @@ "GTString" :> <<"compare_fn_meta", "BasicComparer<Bytes, CmpOpGT>">>
    @@ "GTTime" :> <<"compare_fn_meta", "BasicComparer<DateTime, CmpOpGT>">>
    @@ "GTDuration" :> <<"compare_fn_meta", "BasicComparer<Duration, CmpOpGT>">>
    @@ "GTJson" :> <<"compare_fn_meta", "BasicComparer<Json, CmpOpGT>">>
    @@ "GEReal" :> <<"compare_fn_meta", "BasicComparer<Real, CmpOpGE>">>
    @@ "GEDecimal" :> <<"compare_fn_meta", "BasicComparer<Decimal, CmpOpGE>">>
    @@ "GEString" :> <<"compare_fn_meta", "BasicComparer<Bytes, CmpOpGE>">>
    @@ "GETime" :> <<"compare_fn_meta", "BasicComparer<DateTime, CmpOpGE>">>
    @@ "GEDuration" :> <<"compare_fn_meta", "BasicComparer<Duration, CmpOpGE>">>
    @@ "GEJson" :> <<"compare_fn_meta", "BasicComparer<Json, CmpOpGE>">>
    @@ "NEReal" :> <<"compare_fn_meta", "BasicComparer<Real, CmpOpNE>">>
    @@ "NEDecimal" :> <<"compare_fn_meta", "BasicComparer<Decimal, CmpOpNE>">>
    @@ "NEString" :> <<"compare_fn_meta", "BasicComparer<Bytes, CmpOpNE>">>
    @@ "NETime" :> <<"compare_fn_meta", "BasicComparer<DateTime, CmpOpNE>">>
    @@ "NEDuration" :> <<"compare_fn_meta", "BasicComparer<Duration, CmpOpNE>">>
    @@ "NEJson" :> <<"compare_fn_meta", "BasicComparer<Json, CmpOpNE>">>
    @@ "EQReal" :> <<"compare_fn_meta", "BasicComparer<Real, CmpOpEQ>">>
    @@ "EQDecimal" :> <<"compare_fn_meta", "BasicComparer<Decimal, CmpOpEQ>">>
    @@ "EQString" :> <<"compare_fn_meta", "BasicComparer<Bytes, CmpOpEQ>">>
    @@ "EQTime" :> <<"compare_fn_meta", "BasicComparer<DateTime, CmpOpEQ>">>
    @@ "EQDuration" :> <<"compare_fn_meta", "BasicComparer<Duration, CmpOpEQ>">>
    @@ "EQJson" :> <<"compare_fn_meta", "BasicComparer<Json, CmpOpEQ>">>
    @@ "NullEQReal" :> <<"compare_fn_meta", "BasicComparer<Real, CmpOpNullEQ>">>
    @@ "NullEQDecimal" :> <<"compare_fn_meta", "BasicComparer<Decimal, CmpOpNullEQ>">>
    @@ "NullEQString" :> <<"compare_fn_meta", "BasicComparer<Bytes, CmpOpNullEQ>">>
    @@ "NullEQTime" :> <<"compare_fn_meta", "BasicComparer<DateTime, CmpOpNullEQ>">>
    @@ "NullEQDuration" :> <<"compare_fn_meta", "BasicComparer<Duration, CmpOpNullEQ>">>
    @@ "NullEQJson" :> <<"compare_fn_meta", "BasicComparer<Json, CmpOpNullEQ>">>
    @@ "IntIsNull" :> <<"is_null_fn_meta", "Int">>
    @@ "RealIsNull" :> <<"is_null_fn_meta", "Real">>
    @@ "DecimalIsNull" :> <<"is_null_fn_meta", "Decimal">>
    @@ "StringIsNull" :> <<"is_null_fn_meta", "Bytes">>
    @@ "TimeIsNull" :> <<"is_null_fn_meta", "DateTime">>
    @@ "DurationIsNull" :> <<"is_null_fn_meta", "Duration">>
    @@ "JsonIsNull" :> <<"is_null_fn_meta", "Json">>
    @@ "IntIsTrue" :> <<"int_is_true_fn_meta">>
    @@ "RealIsTrue" :> <<"real_is_true_fn_meta">>
    @@ "DecimalIsTrue" :> <<"decimal_is_true_fn_meta">>
    @@ "IntIsFalse" :> <<"int_is_false_fn_meta">>
    @@ "RealIsFalse" :> <<"real_is_false_fn_meta">>
    @@ "DecimalIsFalse" :> <<"decimal_is_false_fn_meta">>
    @@ "LogicalAnd" :> <<"logical_and_fn_meta">>
    @@ "LogicalOr" :> <<"logical_or_fn_meta">>
    @@ "UnaryNotInt" :> <<"unary_not_fn_meta">>
    @@ "UnaryNotDecimal" :> <<"unary_not_fn_meta">>
    @@ "UnaryNotReal" :> <<"unary_not_fn_meta">>
    @@ "PlusReal" :> <<"arithmetic_fn_meta", "RealPlus">>
    @@ "PlusDecimal" :> <<"arithmetic_fn_meta", "DecimalPlus">>
    @@ "MinusReal" :> <<"arithmetic_fn_meta", "RealMinus">>
    @@ "MinusDecimal" :> <<"arithmetic_fn_meta", "DecimalMinus">>
    @@ "MultiplyDecimal" :> <<"arithmetic_fn_meta", "DecimalMultiply">>
    @@ "MultiplyIntUnsigned" :> <<"arithmetic_fn_meta", "UintUintMultiply">>
    @@ "MultiplyReal" :> <<"arithmetic_fn_meta", "RealMultiply">>
    @@ "ModReal" :> <<"arithmetic_fn_meta", "RealMod">>
    @@ "ModDecimal" :> <<"arithmetic_fn_meta", "DecimalMod">>
    @@ "DivideDecimal" :> <<"arithmetic_with_ctx_fn_meta", "DecimalDivide">>
    @@ "DivideReal" :> <<"arithmetic_with_ctx_fn_meta", "RealDivide">>
    @@ "LikeSig" :> <<"like_fn_meta">>
    @@ "IfNullInt" :> <<"if_null_fn_meta", "Int">>
    @@ "IfNullReal" :> <<"if_null_fn_meta", "Real">>
    @@ "IfNullString" :> <<"if_null_fn_meta", "Bytes">>
    @@ "IfNullDecimal" :> <<"if_null_fn_meta", "Decimal">>
    @@ "IfNullTime" :> <<"if_null_fn_meta", "DateTime">>
    @@ "IfNullDuration" :> <<"if_null_fn_meta", "Duration">>
    @@ "IfNullJson" :> <<"if_null_fn_meta", "Json">>
    @@ "IntDivideDecimal" :> <<"int_divide_decimal_fn_meta">>
    @@ "CaseWhenInt" :> <<"case_when_fn_meta", "Int">>
    @@ "CaseWhenReal" :> <<"case_when_fn_meta", "Real">>
    @@ "CaseWhenString" :> <<"case_when_fn_meta", "Bytes">>
    @@ "CaseWhenDecimal" :> <<"case_when_fn_meta", "Decimal">>
    @@ "CaseWhenTime" :> <<"case_when_fn_meta", "DateTime">>
    @@ "CaseWhenDuration" :> <<"case_when_fn_meta", "Duration">>
    @@ "CaseWhenJson" :> <<"case_when_fn_meta", "Json">>
    @@ "DateFormatSig" :> <<"date_format_fn_meta">>
    @@ "AbsInt" :> <<"abs_int_fn_meta">>
    @@ "AbsUInt" :> <<"abs_uint_fn_meta">>
    @@ "AbsReal" :> <<"abs_real_fn_meta">>
    @@ "AbsDecimal" :> <<"abs_decimal_fn_meta">>
    @@ "CoalesceInt" :> <<"coalesce_fn_meta", "Int">>
    @@ "CoalesceReal" :> <<"coalesce_fn_meta", "Real">>
    @@ "CoalesceString" :> <<"coalesce_fn_meta", "Bytes">>
    @@ "CoalesceDecimal" :> <<"coalesce_fn_meta", "Decimal">>
    @@ "CoalesceTime" :> <<"coalesce_fn_meta", "DateTime">>
    @@ "CoalesceDuration" :> <<"coalesce_fn_meta", "Duration">>
    @@ "CoalesceJson" :> <<"coalesce_fn_meta", "Json">>
    @@ "InInt" :> <<"compare_in_fn_meta", "Int">>
    @@ "InReal" :> <<"compare_in_fn_meta", "Real">>
    @@ "InString" :> <<"compare_in_fn_meta", "Bytes">>
    @@ "InDecimal" :> <<"compare_in_fn_meta", "Decimal">>
    @@ "InTime" :> <<"compare_in_fn_meta", "DateTime">>
    @@ "InDuration" :> <<"compare_in_fn_meta", "Duration">>
    @@ "InJson" :> <<"compare_in_fn_meta", "Json">>
    @@ "IfReal" :> <<"if_condition_fn_meta", "Real">>
    @@ "IfJson" :> <<"if_condition_fn_meta", "Json">>
    @@ "IfInt" :> <<"if_condition_fn_meta", "Int">>
    @@ "IfDuration" :> <<"if_condition_fn_meta", "Duration">>
    @@ "IfString" :> <<"if_condition_fn_meta", "Bytes">>
    @@ "IfTime" :> <<"if_condition_fn_meta", "DateTime">>
    @@ "IfDecimal" :> <<"if_condition_fn_meta", "Decimal">>
    @@ "JsonTypeSig" :> <<"json_type_fn_meta">>

\* The arms of map_pb_sig_to_rpn_func that go through map_int_sig.
IntSigs ==
    {"LTInt", "LEInt", "GTInt", "GEInt", "NEInt", "EQInt", "NullEQInt",
     "PlusInt", "MinusInt", "MultiplyInt", "ModInt", "IntDivideInt"}

\* Mutant: an arm that names one routine asks for at least one operand.
direct_sig_needs_operand(value, children) ==
    IF children = <<>> THEN SigErr("params") ELSE SigOk(DirectSigs[value])

\* map_pb_sig_to_rpn_func, an arm that names one routine: children is not
\* read.
direct_sig(value, children) == SigOk(DirectSigs[value])

\* map_pb_sig_to_rpn_func, the `_` arm.
unknown_sig(value) == SigErr("not supported in batch mode")

map_pb_sig_to_rpn_func(value, children) ==
    CASE value = "LTInt" ->
          map_int_sig(value, children,
                      [l, r \in BOOLEAN |-> compare_mapper("CmpOpLT", l, r)])
      [] value = "LEInt" ->
          map_int_sig(value, children,
                      [l, r \in BOOLEAN |-> compare_mapper("CmpOpLE", l, r)])
      [] value = "GTInt" ->
          map_int_sig(value, children,
                      [l, r \in BOOLEAN |-> compare_mapper("CmpOpGT", l, r)])
      [] value = "GEInt" ->
          map_int_sig(value, children,
                      [l, r \in BOOLEAN |-> compare_mapper("CmpOpGE", l, r)])
      [] value = "NEInt" ->
          map_int_sig(value, children,
                      [l, r \in BOOLEAN |-> compare_mapper("CmpOpNE", l, r)])
      [] value = "EQInt" ->
          map_int_sig(value, children,
                      [l, r \in BOOLEAN |-> compare_mapper("CmpOpEQ", l, r)])
      [] value = "NullEQInt" ->
          map_int_sig(value, children,
                      [l, r \in BOOLEAN |-> compare_mapper("CmpOpNullEQ", l, r)])
      [] value = "PlusInt" ->
          map_int_sig(value, children,
                      [l, r \in BOOLEAN |-> plus_mapper(l, r)])
      [] value = "MinusInt" ->
          map_int_sig(value, children,
                      [l, r \in BOOLEAN |-> minus_mapper(l, r)])
      [] value = "MultiplyInt" ->
          map_int_sig(value, children,
                      [l, r \in BOOLEAN |-> multiply_mapper(l, r)])
      [] value = "ModInt" ->
          map_int_sig(value, children,
                      [l, r \in BOOLEAN |-> mod_mapper(l, r)])
      [] value = "IntDivideInt" ->
          map_int_sig(value, children,
                      [l, r \in BOOLEAN |-> divide_mapper(l, r)])
      [] value \in DOMAIN DirectSigs -> direct_sig(value, children)
      [] OTHER -> unknown_sig(value)

\* Signatures of ScalarFuncSig that have no arm.
OtherSigs == {"CastIntAsInt", "BitAndSig", "Length", "JsonExtractSig"}

ScalarFuncSig == DOMAIN DirectSigs \cup IntSigs \cup OtherSigs

SigInit ==
    /\ sig_value \in ScalarFuncSig
    /\ sig_children \in ChildSeqs
    /\ sig_pc = "ready"
    /\ sig_result = NoSigResult

\* A call of map_pb_sig_to_rpn_func.
MapPbSigToRpnFunc ==
    /\ sig_pc = "ready"
    /\ sig_result' = map_pb_sig_to_rpn_func(sig_value, sig_children)
    /\ sig_pc' = "returned"
    /\ UNCHANGED <<sig_value, sig_children>>

----------------------------------------------------------------------------
(* handle_request over the chain built from [TableScan, Selection, Limit]  *)

\* The descriptors of the plan; every constructor succeeds.
ScanSelectionLimit ==
    <<[tp |-> "TypeTableScan", ctor_ok |-> TRUE],
      [tp |-> "TypeSelection", ctor_ok |-> TRUE],
      [tp |-> "TypeLimit", ctor_ok |-> TRUE]>>

\* What the stages keep between pulls: rows the scan has read, the scan's
\* counter of scanned rows not yet collected, rows the limit has passed on.
PlanState0 == [pos |-> 0, count |-> 0, cursor |-> 0]

\* Executor::next of the stage at position level.  A row is the index of
\* the row in the range, 0 is None.
\*   scan: the next row of the range, counted as scanned;
\*   selection: pulls its child until a row satisfies the predicate;
\*   limit: None once `limit` rows were passed on, without pulling its child.
RECURSIVE executor_next(_, _, _, _, _)
executor_next(executor, level, rows, limit, st) ==
    LET stage == executor[level]
    IN IF stage.tp \in {"TypeTableScan", "TypeIndexScan"}
       THEN IF st.pos < Len(rows)
            THEN [row |-> st.pos + 1,
                  st |-> [st EXCEPT !.pos = @ + 1, !.count = @ + 1]]
            ELSE [row |-> 0, st |-> st]
       ELSE IF stage.tp = "TypeSelection"
       THEN LET r == executor_next(executor, stage.child, rows, limit, st)
            IN IF r.row = 0 \/ rows[r.row]
               THEN r
               ELSE executor_next(executor, level, rows, limit, r.st)
       ELSE IF st.cursor >= limit
            THEN [row |-> 0, st |-> st]
            ELSE LET r == executor_next(executor, stage.child, rows, limit,
                                        st)
                 IN IF r.row = 0
                    THEN r
                    ELSE [row |-> r.row,
                          st |-> [r.st EXCEPT !.cursor = @ + 1]]

PlanRowSeqs == UNION {[1..n -> BOOLEAN] : n \in 0..MaxPlanRows}

\* The runner after from_request, before the first call.
PlanInit ==
    /\ plan_rows \in PlanRowSeqs
    /\ plan_limit \in 0..MaxPlanLimit
    /\ plan_batch_row_limit \in 1..MaxLimit
    /\ plan_executor = build_executors(ScanSelectionLimit).executor
    /\ plan_state = PlanState0
    /\ plan_chunks = <<>>
    /\ plan_record_cnt = 0
    /\ plan_pc = "running"
    /\ plan_result = NoResult

PlanPull ==
    executor_next(plan_executor, Len(plan_executor), plan_rows, plan_limit,
                  plan_state)

\* handle_request, the Some(row) arm without failure.
PlanRow ==
    /\ plan_pc = "running"
    /\ PlanPull.row # 0
    /\ plan_state' = PlanPull.st
    /\ plan_chunks' = push_row(plan_chunks, plan_record_cnt,
                               plan_batch_row_limit, PlanPull.row)
    /\ plan_record_cnt' = next_record_cnt(plan_chunks, plan_record_cnt,
                                          plan_batch_row_limit)
    /\ UNCHANGED <<plan_rows, plan_limit, plan_batch_row_limit,
                   plan_executor, plan_pc, plan_result>>

\* handle_request, the None arm: the scan's counter is collected into the
\* statistics and reported in output_counts.
PlanDone ==
    /\ plan_pc = "running"
    /\ PlanPull.row = 0
    /\ LET st == PlanPull.st
           stats == collect_exec_stats(<<>>, st.count)
       IN /\ plan_result' =
                 ResultSelect(plan_chunks, select_output_counts(stats))
          /\ plan_state' = [st EXCEPT !.count = 0]
    /\ plan_pc' = "returned"
    /\ UNCHANGED <<plan_rows, plan_limit, plan_batch_row_limit,
                   plan_executor, plan_chunks, plan_record_cnt>>

----------------------------------------------------------------------------
(* split_check/table.rs: keys                                              *)

\* Keys are byte strings: sequences of numbers in 0..255.
RECURSIVE BytesLess(_, _)
BytesLess(a, b) ==
    IF b = <<>> THEN FALSE
    ELSE IF a = <<>> THEN TRUE
    ELSE IF Head(a) # Head(b) THEN Head(a) < Head(b)
    ELSE BytesLess(Tail(a), Tail(b))

\* <[u8]>::cmp
BytesCmp(a, b) ==
    IF a = b THEN "Equal" ELSE IF BytesLess(a, b) THEN "Less" ELSE "Greater"

\* key[..n]
Take(key, n) == SubSeq(key, 1, n)

starts_with(key, prefix) ==
    Len(key) >= Len(prefix) /\ Take(key, Len(prefix)) = prefix

Zeros(n) == [i \in 1..n |-> 0]

\* table_codec::TABLE_PREFIX = b"t"
TABLE_PREFIX == <<116>>

TABLE_PREFIX_LEN == 1

\* table_codec::TABLE_PREFIX_KEY_LEN = TABLE_PREFIX_LEN + 8
TABLE_PREFIX_KEY_LEN == 9

ENCODED_TABLE_TABLE_PREFIX == TABLE_PREFIX_KEY_LEN + 1

\* keys::DATA_PREFIX_KEY = b"z"
DATA_PREFIX_KEY == <<122>>

\* keys::data_key
data_key(key) == DATA_PREFIX_KEY \o key

\* keys::origin_key
origin_key(key) == SubSeq(key, Len(DATA_PREFIX_KEY) + 1, Len(key))

\* NumberEncoder::encode_i64 for 0 <= v < 256: big endian, sign bit flipped.
encode_i64(v) == <<128, 0, 0, 0, 0, 0, 0, v>>

\* Key::from_raw(..).into_encoded(): memcomparable groups of 8 bytes, each
\* followed by a marker, 255 for a full group that is not the last.
RECURSIVE encode_bytes(_)
encode_bytes(raw) ==
    IF Len(raw) >= 8
    THEN Take(raw, 8) \o <<255>> \o encode_bytes(SubSeq(raw, 9, Len(raw)))
    ELSE raw \o Zeros(8 - Len(raw)) \o <<255 - (8 - Len(raw))>>

\* Key::from_encoded_slice(..).to_raw(): Err for a key that is no sequence
\* of such groups; bytes after the last group are not read.
RECURSIVE decode_bytes(_)
decode_bytes(enc) ==
    IF Len(enc) < 9
    THEN [ok |-> FALSE, raw |-> <<>>]
    ELSE LET marker == enc[9]
             pad == 255 - marker
         IN IF marker = 255
            THEN LET rest == decode_bytes(SubSeq(enc, 10, Len(enc)))
                 IN [ok |-> rest.ok, raw |-> Take(enc, 8) \o rest.raw]
            ELSE IF pad > 8 \/ SubSeq(enc, 9 - pad, 8) # Zeros(pad)
            THEN [ok |-> FALSE, raw |-> <<>>]
            ELSE [ok |-> TRUE, raw |-> Take(enc, 8 - pad)]

\* table_codec::extract_table_prefix
extract_table_prefix(raw) ==
    IF ~starts_with(raw, TABLE_PREFIX) \/ Len(raw) < TABLE_PREFIX_KEY_LEN
    THEN [ok |-> FALSE, raw |-> <<>>]
    ELSE [ok |-> TRUE, raw |-> Take(raw, TABLE_PREFIX_KEY_LEN)]

\* Option<Vec<u8>>: None is <<>>, Some(k) is <<k>>.
None == <<>>

Some(k) == <<k>>

\* Mutant: the key is returned whole, not cut down to its table prefix.
to_encoded_table_prefix_whole_key(encoded_key) ==
    LET raw_key == decode_bytes(encoded_key)
    IN IF raw_key.ok
       THEN LET k == extract_table_prefix(raw_key.raw)
            IN IF k.ok THEN Some(encoded_key) ELSE None
       ELSE None

to_encoded_table_prefix(encoded_key) ==
    LET raw_key == decode_bytes(encoded_key)
    IN IF raw_key.ok
       THEN LET k == extract_table_prefix(raw_key.raw)
            IN IF k.ok THEN Some(encode_bytes(k.raw)) ELSE None
       ELSE None

is_table_key(encoded_key) ==
    /\ starts_with(encoded_key, TABLE_PREFIX)
    /\ Len(encoded_key) >= ENCODED_TABLE_TABLE_PREFIX

\* Mutant: no two keys are taken to be of the same table.
is_same_table_never(left_key, right_key) == FALSE

is_same_table(left_key, right_key) ==
    /\ is_table_key(left_key)
    /\ is_table_key(right_key)
    /\ Take(left_key, ENCODED_TABLE_TABLE_PREFIX) =
           Take(right_key, ENCODED_TABLE_TABLE_PREFIX)

\* tests::gen_table_prefix: `t[table_id]`
gen_table_prefix(table_id) == TABLE_PREFIX \o encode_i64(table_id)

\* A row key of the table: the table prefix, "_r" and a handle.
gen_row_key(table_id, handle) ==
    gen_table_prefix(table_id) \o <<95, 114, handle>>

TableIds == 1..MaxTable

RowHandles == {1, 2}

\* Raw keys outside the table key space: "s", "s1" before it, "u", "u1"
\* after it.
RawBefore == <<115>>

RawBeforeData == <<115, 49>>

RawAfter == <<117>>

RawAfterData == <<117, 49>>

\* The encoded keys the store may hold.
StoredKeys ==
    {encode_bytes(gen_row_key(t, h)) : t \in TableIds, h \in RowHandles}
        \cup {encode_bytes(RawBeforeData), encode_bytes(RawAfterData)}

\* The keys a region may start or end with; <<>> is unbounded, and "s" and
\* "u" are taken both encoded and as they are.
BoundaryKeys ==
    {<<>>, encode_bytes(RawBefore), encode_bytes(RawAfter), RawBefore,
     RawAfter}
        \cup {encode_bytes(gen_table_prefix(t)) : t \in TableIds}
        \cup {encode_bytes(gen_row_key(t, 2)) : t \in TableIds}

----------------------------------------------------------------------------
(* split_check/table.rs: TableCheckObserver and Checker                    *)

\* No checker was added to the host.
NoChecker ==
    [added |-> FALSE, out_of_order |-> FALSE,
     first_encoded_table_prefix |-> None, split_key |-> None]

\* panic!("start_key {} and end_key {} out of order")
OutOfOrder == [NoChecker EXCEPT !.out_of_order = TRUE]

\* Checker { first_encoded_table_prefix, split_key, policy }
NewChecker(first, split) ==
    [added |-> TRUE, out_of_order |-> FALSE,
     first_encoded_table_prefix |-> first, split_key |-> split]

InRegion(key, start, end) ==
    /\ ~BytesLess(key, start)
    /\ end = <<>> \/ BytesLess(key, end)

RECURSIVE SortedKeys(_)
SortedKeys(S) ==
    IF S = {}
    THEN <<>>
    ELSE LET least == CHOOSE k \in S : \A o \in S : ~BytesLess(o, k)
         IN <<least>> \o SortedKeys(S \ {least})

\* last_key_of_region without failure: the last data key of the region in
\* the write column family, if there is one.
last_key_of_region(keys) ==
    IF keys = {}
    THEN None
    ELSE Some(data_key(CHOOSE k \in keys : \A o \in keys : ~BytesLess(k, o)))

\* Mutant: a region that ends in table data always waits for the scan.
split_key_of_end_key_unset(encoded_end_key) == None

\* add_checker, the arms (Less, Equal) and (Equal, Equal).
split_key_of_end_key(encoded_end_key) ==
    to_encoded_table_prefix(encoded_end_key)

\* Mutant: the table prefix is compared with the key, not the key with the
\* table prefix.
cmp_with_table_prefix_reversed(key) ==
    BytesCmp(TABLE_PREFIX, Take(key, TABLE_PREFIX_LEN))

\* add_checker: `key[..TABLE_PREFIX_LEN].cmp(TABLE_PREFIX)`
cmp_with_table_prefix(key) ==
    BytesCmp(Take(key, TABLE_PREFIX_LEN), TABLE_PREFIX)

\* add_checker, from `let encoded_start_key` on.  Returns the checker added
\* to the host, NoChecker for a return without one, OutOfOrder for the
\* last arm.
add_checker_for(encoded_start_key, encoded_end_key) ==
    IF \/ Len(encoded_start_key) < TABLE_PREFIX_KEY_LEN
       \/ Len(encoded_end_key) < TABLE_PREFIX_KEY_LEN
    THEN NewChecker(None, None)
    ELSE LET l == cmp_with_table_prefix(encoded_start_key)
             r == cmp_with_table_prefix(encoded_end_key)
         IN CASE (l = "Less" /\ r = "Less") \/ (l = "Greater" /\ r = "Greater")
                     -> NoChecker
              [] l = "Less" /\ r = "Greater" -> NewChecker(None, None)
              [] l = "Less" /\ r = "Equal" ->
                     NewChecker(None, split_key_of_end_key(encoded_end_key))
              [] l = "Equal" /\ r = "Equal" ->
                     IF is_same_table(encoded_start_key, encoded_end_key)
                     THEN NoChecker
                     ELSE NewChecker(None,
                                     split_key_of_end_key(encoded_end_key))
              [] l = "Equal" /\ r = "Greater" ->
                     NewChecker(to_encoded_table_prefix(encoded_start_key),
                                None)
              [] OTHER -> OutOfOrder

\* Mutant: the first table prefix of the checker is not looked at.
on_kv_split_key_any_table(c, current_encoded_key) ==
    IF is_table_key(current_encoded_key)
    THEN to_encoded_table_prefix(current_encoded_key)
    ELSE None

\* Checker::on_kv, the split key looked for in the current key.
on_kv_split_key(c, current_encoded_key) ==
    LET split_key ==
            IF c.first_encoded_table_prefix # None
            THEN IF ~is_same_table(c.first_encoded_table_prefix[1],
                                   current_encoded_key)
                 THEN Some(current_encoded_key)
                 ELSE None
            ELSE IF is_table_key(current_encoded_key)
                 THEN Some(current_encoded_key)
                 ELSE None
    IN IF split_key = None
       THEN None
       ELSE to_encoded_table_prefix(split_key[1])

\* Mutant: a split key already held does not end the search.
on_kv_searches_on(c, entry_key) ==
    LET k == on_kv_split_key(c, origin_key(entry_key))
    IN [checker |-> [c EXCEPT !.split_key = k], ret |-> k # None]

\* Checker::on_kv: the checker after the call and the value returned.
on_kv(c, entry_key) ==
    IF c.split_key # None
    THEN [checker |-> c, ret |-> TRUE]
    ELSE LET k == on_kv_split_key(c, origin_key(entry_key))
         IN [checker |-> [c EXCEPT !.split_key = k], ret |-> k # None]

\* Checker::split_keys: the keys returned, vec![] or vec![key].
split_keys(c) == c.split_key

\* Mutant: split_keys reads the split key and leaves it in the checker.
split_key_kept(c) == c

\* Checker::split_keys: `self.split_key.take()` leaves None behind.
split_key_taken(c) == [c EXCEPT !.split_key = None]

Regions ==
    {r \in BoundaryKeys \X BoundaryKeys :
        r[2] = <<>> \/ BytesLess(r[1], r[2])}

SplitInit ==
    /\ \E r \in Regions : region_start = r[1] /\ region_end = r[2]
    /\ db \in SUBSET {k \in StoredKeys : InRegion(k, region_start, region_end)}
    /\ checker = NoChecker
    /\ scan_rest = <<>>
    /\ split_pc = "start"
    /\ split_out = <<>>

\* TableCheckObserver::add_checker, then the start of the scan if a
\* checker was added (the host is skipped otherwise).
AddChecker ==
    /\ split_pc = "start"
    /\ \E io_ok \in BOOLEAN :
          LET end_key == last_key_of_region(db)
          IN IF \/ is_same_table(region_start, region_end)
                \/ ~io_ok
                \/ end_key = None
             THEN /\ checker' = NoChecker
                  /\ split_pc' =
                         IF ~is_same_table(region_start, region_end) /\ ~io_ok
                         THEN "failed"
                         ELSE "done"
                  /\ scan_rest' = <<>>
             ELSE LET c == add_checker_for(region_start,
                                           origin_key(end_key[1]))
                  IN IF c.out_of_order
                     THEN /\ checker' = NoChecker
                          /\ split_pc' = "panic"
                          /\ scan_rest' = <<>>
                     ELSE /\ checker' = c
                          /\ split_pc' = IF c.added THEN "scan" ELSE "done"
                          /\ scan_rest' =
                                 IF c.added THEN SortedKeys(db) ELSE <<>>
    /\ UNCHANGED <<region_start, region_end, db, split_out>>

\* The split check feeds the next key of the region to on_kv and stops
\* scanning when on_kv returns true.
OnKv ==
    /\ split_pc = "scan"
    /\ scan_rest # <<>>
    /\ LET r == on_kv(checker, data_key(Head(scan_rest)))
       IN /\ checker' = r.checker
          /\ split_pc' = IF r.ret THEN "collect" ELSE "scan"
          /\ scan_rest' = IF r.ret THEN scan_rest ELSE Tail(scan_rest)
    /\ UNCHANGED <<region_start, region_end, db, split_out>>

\* The scan has fed every key of the region.
ScanEnd ==
    /\ split_pc = "scan"
    /\ scan_rest = <<>>
    /\ split_pc' = "collect"
    /\ UNCHANGED <<region_start, region_end, db, checker, scan_rest,
                   split_out>>

\* Checker::split_keys
SplitKeys ==
    /\ split_pc = "collect"
    /\ split_out' = split_keys(checker)
    /\ checker' = split_key_taken(checker)
    /\ split_pc' = "done"
    /\ UNCHANGED <<region_start, region_end, db, scan_rest>>

----------------------------------------------------------------------------
(* handle_qe_stream_response over every value of its argument              *)

\* The chunk of a stream response: at most two rows.
QeChunks == UNION {[1..n -> 1..MaxRows] : n \in 1..2}

\* tidb_query::Result<(Option<(StreamResponse, IntervalRange)>, bool)>
QeResults ==
    {ResultErr(inner, cause) :
         inner \in ErrorInner, cause \in {"next", "get_binary"}}
    \cup {[NoResult EXCEPT !.tag = "Ok", !.finished = fin] : fin \in BOOLEAN}
    \cup {ResultStreamSome(c, <<n>>, fin) :
              c \in QeChunks, n \in 0..MaxRows, fin \in BOOLEAN}

QeInit ==
    /\ qe_result \in QeResults
    /\ qe_pc = "ready"
    /\ qe_response = NoResponse

\* A call of handle_qe_stream_response.
HandleQeStreamResponse ==
    /\ qe_pc = "ready"
    /\ qe_response' = handle_qe_stream_response(qe_result)
    /\ qe_pc' = "returned"
    /\ UNCHANGED qe_result

----------------------------------------------------------------------------
(* Checker::on_kv fed any keys, on any Checker add_checker creates         *)

MaxFed == 3

MaxTakes == 2

\* The checkers add_checker adds to the host.
CreatedCheckers ==
    {c \in {add_checker_for(s, e) : s \in BoundaryKeys, e \in StoredKeys} :
        c.added}

CkInit ==
    /\ ck_created \in CreatedCheckers
    /\ ck_self = ck_created
    /\ ck_before = ck_created
    /\ ck_fed = <<>>
    /\ ck_ret = FALSE
    /\ ck_ops = <<>>

\* A call of Checker::on_kv with the data key of any stored key.
CkOnKv ==
    /\ Len(ck_fed) < MaxFed
    /\ \E key \in StoredKeys :
          LET r == on_kv(ck_self, data_key(key))
          IN /\ ck_self' = r.checker
             /\ ck_ret' = r.ret
             /\ ck_fed' = Append(ck_fed, key)
    /\ ck_before' = ck_self
    /\ ck_ops' = Append(ck_ops, [op |-> "on_kv", keys |-> <<>>])
    /\ UNCHANGED ck_created

Takes == Len(SelectSeq(ck_ops, LAMBDA o : o.op = "split_keys"))

\* A call of Checker::split_keys.
CkSplitKeys ==
    /\ Takes < MaxTakes
    /\ ck_ops' = Append(ck_ops, [op |-> "split_keys",
                                 keys |-> split_keys(ck_self)])
    /\ ck_self' = split_key_taken(ck_self)
    /\ ck_before' = ck_self
    /\ UNCHANGED <<ck_created, ck_fed, ck_ret>>

----------------------------------------------------------------------------
(* add_checker over any start key and any last key                         *)

AddInit ==
    /\ add_start_key \in BoundaryKeys
    /\ add_end_key \in StoredKeys
    /\ add_pc = "ready"
    /\ added = NoChecker

\* add_checker, from `let encoded_start_key` on.
AddCheckerFor ==
    /\ add_pc = "ready"
    /\ LET c == add_checker_for(add_start_key, add_end_key)
       IN /\ add_pc' = IF c.out_of_order THEN "panic" ELSE "returned"
          /\ added' = IF c.out_of_order THEN NoChecker ELSE c
    /\ UNCHANGED <<add_start_key, add_end_key>>

----------------------------------------------------------------------------
(* Specifications                                                          *)

BuildIdle ==
    /\ exec_descriptors = <<>>
    /\ build_pc = "ready"
    /\ build_result = NotBuilt

RunIdle ==
    /\ batch_row_limit = 1
    /\ source_rows = 0
    /\ deadline_inner = "Evaluate"
    /\ deadline_expired = FALSE
    /\ exec_stats = <<>>
    /\ pulled = 0
    /\ scanned_pending = 0
    /\ pc = "idle"
    /\ record_cnt = 0
    /\ chunks = <<>>
    /\ chunk = <<>>
    /\ finished = FALSE
    /\ result = NoResult
    /\ response = NoResponse
    /\ calls = 0
    /\ last_call = ""
    /\ call_start = 0
    /\ first_pull = ""
    /\ expired_at = -1
    /\ reported = 0
    /\ delivered = <<>>
    /\ stream_run = "open"

HandlerIdle ==
    /\ enable_batch_if_possible = FALSE
    /\ is_streaming = FALSE
    /\ collect_summaries = FALSE
    /\ eval_config_ok = TRUE
    /\ check_supported_ok = FALSE
    /\ batch_new_ok = FALSE
    /\ handler_pc = "ready"
    /\ handler = NoHandler
    /\ handler_calls = 0
    /\ handler_out = NoOut

SigIdle ==
    /\ sig_value = "LTInt"
    /\ sig_children = <<>>
    /\ sig_pc = "ready"
    /\ sig_result = NoSigResult

PlanIdle ==
    /\ plan_rows = <<>>
    /\ plan_limit = 0
    /\ plan_batch_row_limit = 1
    /\ plan_executor = <<>>
    /\ plan_state = PlanState0
    /\ plan_chunks = <<>>
    /\ plan_record_cnt = 0
    /\ plan_pc = "idle"
    /\ plan_result = NoResult

SplitIdle ==
    /\ region_start = <<>>
    /\ region_end = <<>>
    /\ db = {}
    /\ checker = NoChecker
    /\ scan_rest = <<>>
    /\ split_pc = "idle"
    /\ split_out = <<>>

QeIdle ==
    /\ qe_result = NoResult
    /\ qe_pc = "idle"
    /\ qe_response = NoResponse

CkIdle ==
    /\ ck_created = NoChecker
    /\ ck_self = NoChecker
    /\ ck_before = NoChecker
    /\ ck_fed = <<>>
    /\ ck_ret = FALSE
    /\ ck_ops = <<>>

AddIdle ==
    /\ add_start_key = <<>>
    /\ add_end_key = <<>>
    /\ add_pc = "idle"
    /\ added = NoChecker

InitBuild == BuildInit /\ RunIdle /\ HandlerIdle /\ SigIdle /\ PlanIdle /\ SplitIdle /\ QeIdle /\ CkIdle /\ AddIdle

NextBuild == BuildExecutors /\ UNCHANGED <<run_vars, handler_vars, sig_vars, plan_vars, split_vars, qe_vars, ck_vars, add_vars>>

SpecBuild == InitBuild /\ [][NextBuild]_vars

InitRun == RunInit /\ BuildIdle /\ HandlerIdle /\ SigIdle /\ PlanIdle /\ SplitIdle /\ QeIdle /\ CkIdle /\ AddIdle

NextRun ==
    \/ Expire /\ UNCHANGED <<build_vars, handler_vars, sig_vars, plan_vars, split_vars, qe_vars, ck_vars, add_vars>>
    \/ CallHandleRequest /\ UNCHANGED <<build_vars, handler_vars, sig_vars, plan_vars, split_vars, qe_vars, ck_vars, add_vars>>
    \/ ReqNextErr /\ UNCHANGED <<build_vars, handler_vars, sig_vars, plan_vars, split_vars, qe_vars, ck_vars, add_vars>>
    \/ ReqRowDeadline /\ UNCHANGED <<build_vars, handler_vars, sig_vars, plan_vars, split_vars, qe_vars, ck_vars, add_vars>>
    \/ ReqRowAppend /\ UNCHANGED <<build_vars, handler_vars, sig_vars, plan_vars, split_vars, qe_vars, ck_vars, add_vars>>
    \/ ReqRowEncodeErr /\ UNCHANGED <<build_vars, handler_vars, sig_vars, plan_vars, split_vars, qe_vars, ck_vars, add_vars>>
    \/ ReqDone /\ UNCHANGED <<build_vars, handler_vars, sig_vars, plan_vars, split_vars, qe_vars, ck_vars, add_vars>>
    \/ CallHandleStreamingRequest /\ UNCHANGED <<build_vars, handler_vars, sig_vars, plan_vars, split_vars, qe_vars, ck_vars, add_vars>>
    \/ StreamNextErr /\ UNCHANGED <<build_vars, handler_vars, sig_vars, plan_vars, split_vars, qe_vars, ck_vars, add_vars>>
    \/ StreamRowDeadline /\ UNCHANGED <<build_vars, handler_vars, sig_vars, plan_vars, split_vars, qe_vars, ck_vars, add_vars>>
    \/ StreamRowAppend /\ UNCHANGED <<build_vars, handler_vars, sig_vars, plan_vars, split_vars, qe_vars, ck_vars, add_vars>>
    \/ StreamRowEncodeErr /\ UNCHANGED <<build_vars, handler_vars, sig_vars, plan_vars, split_vars, qe_vars, ck_vars, add_vars>>
    \/ StreamNone /\ UNCHANGED <<build_vars, handler_vars, sig_vars, plan_vars, split_vars, qe_vars, ck_vars, add_vars>>
    \/ StreamReturn /\ UNCHANGED <<build_vars, handler_vars, sig_vars, plan_vars, split_vars, qe_vars, ck_vars, add_vars>>

SpecRun == InitRun /\ [][NextRun]_vars

InitHandler ==
    /\ exec_descriptors \in PlanSeqs
    /\ build_pc = "ready"
    /\ build_result = NotBuilt
    /\ RunIdle
    /\ HandlerInit
    /\ SigIdle
    /\ PlanIdle
    /\ SplitIdle
    /\ QeIdle
    /\ CkIdle
    /\ AddIdle

NextHandler ==
    \/ BuildHandler /\ UNCHANGED <<build_vars, run_vars, sig_vars, plan_vars, split_vars, qe_vars, ck_vars, add_vars>>
    \/ HandlerHandleRequest /\ UNCHANGED <<build_vars, run_vars, sig_vars, plan_vars, split_vars, qe_vars, ck_vars, add_vars>>
    \/ HandlerHandleStreamingRequest /\ UNCHANGED <<build_vars, run_vars, sig_vars, plan_vars, split_vars, qe_vars, ck_vars, add_vars>>

SpecHandler == InitHandler /\ [][NextHandler]_vars

InitSig == SigInit /\ BuildIdle /\ RunIdle /\ HandlerIdle /\ PlanIdle /\ SplitIdle /\ QeIdle /\ CkIdle /\ AddIdle

NextSig ==
    MapPbSigToRpnFunc /\ UNCHANGED <<build_vars, run_vars, handler_vars, plan_vars, split_vars, qe_vars, ck_vars, add_vars>>

SpecSig == InitSig /\ [][NextSig]_vars

InitPlan == PlanInit /\ BuildIdle /\ RunIdle /\ HandlerIdle /\ SigIdle /\ SplitIdle /\ QeIdle /\ CkIdle /\ AddIdle

NextPlan ==
    \/ PlanRow /\ UNCHANGED <<build_vars, run_vars, handler_vars, sig_vars, split_vars, qe_vars, ck_vars, add_vars>>
    \/ PlanDone /\ UNCHANGED <<build_vars, run_vars, handler_vars, sig_vars, split_vars, qe_vars, ck_vars, add_vars>>

SpecPlan == InitPlan /\ [][NextPlan]_vars

other_than_run_vars ==
    <<build_vars, handler_vars, sig_vars, plan_vars, split_vars, qe_vars,
      ck_vars,
      add_vars>>

\* Streaming calls only, without errors and without expiry of the deadline;
\* the caller goes on calling and every call runs to its return.
NextStream ==
    \/ NextStreamingCall /\ UNCHANGED other_than_run_vars
    \/ StreamRowAppend /\ UNCHANGED other_than_run_vars
    \/ StreamNone /\ UNCHANGED other_than_run_vars
    \/ StreamReturn /\ UNCHANGED other_than_run_vars

SpecStream == InitRun /\ [][NextStream]_vars /\ WF_vars(NextStream)

other_than_split_vars ==
    <<build_vars, run_vars, handler_vars, sig_vars, plan_vars, qe_vars,
      ck_vars,
      add_vars>>

InitSplit ==
    /\ SplitInit /\ BuildIdle /\ RunIdle /\ HandlerIdle /\ SigIdle
    /\ PlanIdle /\ QeIdle
    /\ CkIdle
    /\ AddIdle

NextSplit ==
    \/ AddChecker /\ UNCHANGED other_than_split_vars
    \/ OnKv /\ UNCHANGED other_than_split_vars
    \/ ScanEnd /\ UNCHANGED other_than_split_vars
    \/ SplitKeys /\ UNCHANGED other_than_split_vars

SpecSplit == InitSplit /\ [][NextSplit]_vars

other_than_qe_vars ==
    <<build_vars, run_vars, handler_vars, sig_vars, plan_vars, split_vars,
      ck_vars,
      add_vars>>

InitQe ==
    /\ QeInit /\ BuildIdle /\ RunIdle /\ HandlerIdle /\ SigIdle
    /\ PlanIdle /\ SplitIdle
    /\ CkIdle
    /\ AddIdle

NextQe == HandleQeStreamResponse /\ UNCHANGED other_than_qe_vars

SpecQe == InitQe /\ [][NextQe]_vars

other_than_ck_vars ==
    <<build_vars, run_vars, handler_vars, sig_vars, plan_vars, split_vars,
      qe_vars,
      add_vars>>

InitChecker ==
    /\ CkInit /\ BuildIdle /\ RunIdle /\ HandlerIdle /\ SigIdle
    /\ PlanIdle /\ SplitIdle /\ QeIdle
    /\ AddIdle

NextChecker == CkOnKv /\ UNCHANGED other_than_ck_vars

SpecChecker == InitChecker /\ [][NextChecker]_vars

\* on_kv and split_keys called on the Checker in any order.
NextTake ==
    \/ CkOnKv /\ UNCHANGED other_than_ck_vars
    \/ CkSplitKeys /\ UNCHANGED other_than_ck_vars

SpecTake == InitChecker /\ [][NextTake]_vars

other_than_add_vars ==
    <<build_vars, run_vars, handler_vars, sig_vars, plan_vars, split_vars,
      qe_vars, ck_vars>>

InitAdd ==
    /\ AddInit /\ BuildIdle /\ RunIdle /\ HandlerIdle /\ SigIdle
    /\ PlanIdle /\ SplitIdle /\ QeIdle /\ CkIdle

NextAdd == AddCheckerFor /\ UNCHANGED other_than_add_vars

SpecAdd == InitAdd /\ [][NextAdd]_vars

----------------------------------------------------------------------------
(* Properties of the pipeline builder (checked under SpecBuild)            *)

\* The descriptor types the builder is said to accept, as the claims list
\* them.
ScanKinds == {"TypeTableScan", "TypeIndexScan"}

TransformKinds ==
    {"TypeSelection", "TypeAggregation", "TypeStreamAgg", "TypeTopN",
     "TypeLimit"}

Built == build_pc = "returned"

WellTyped(descs) ==
    /\ descs # <<>>
    /\ descs[1].tp \in ScanKinds
    /\ \A i \in 2..Len(descs) : descs[i].tp \in TransformKinds

AllCtorsOk(descs) == \A i \in 1..Len(descs) : descs[i].ctor_ok

\* C1 as stated: build_executors succeeds for every descriptor sequence
\* that starts with a scan and continues with transform descriptors only,
\* whatever the descriptors carry.
C1_WellTypedAlwaysBuilds ==
    (Built /\ WellTyped(exec_descriptors)) => build_result.ok

\* C1 amended: such a sequence builds whenever every stage constructor
\* accepts its descriptor; when one of them refuses, build_executors
\* returns that constructor's error, and no other error is possible.
C1_WellTypedBuildsUnlessCtorFails ==
    (Built /\ WellTyped(exec_descriptors)) =>
        /\ AllCtorsOk(exec_descriptors) => build_result.ok
        /\ build_result.ok => Len(build_result.executor) = Len(exec_descriptors)
        /\ ~build_result.ok => build_result.err = "constructor error"

C1_Witness ==
    /\ Built
    /\ Len(exec_descriptors) >= 3
    /\ exec_descriptors[1].tp = "TypeIndexScan"
    /\ exec_descriptors[2].tp = "TypeLimit"
    /\ exec_descriptors[3].tp = "TypeSelection"
    /\ AllCtorsOk(exec_descriptors)
    /\ build_result.ok

Malformed(descs) ==
    \/ descs = <<>>
    \/ descs[1].tp \notin ScanKinds
    \/ \E i \in 2..Len(descs) : descs[i].tp \notin TransformKinds

\* C2: an empty sequence, a sequence whose first descriptor is not a scan,
\* and a sequence with a scan (or any non-transform type) after the first
\* position all end in a build error, and no chain is returned.
C2_MalformedIsBuildError ==
    (Built /\ Malformed(exec_descriptors)) =>
        /\ ~build_result.ok
        /\ build_result.executor = <<>>
        /\ build_result.err # ""

C2_Witness ==
    /\ Built
    /\ Len(exec_descriptors) >= 3
    /\ exec_descriptors[1].tp \in ScanKinds
    /\ exec_descriptors[2].tp = "TypeSelection"
    /\ exec_descriptors[3].tp \in ScanKinds
    /\ exec_descriptors[1].ctor_ok /\ exec_descriptors[2].ctor_ok
    /\ build_result.err = "Unexpected non-first executor"

----------------------------------------------------------------------------
(* Properties of the execution runner (checked under SpecRun)              *)

ReturnedSelect ==
    pc = "idle" /\ last_call = "request" /\ result.tag = "Ok"

ReturnedStream ==
    pc = "idle" /\ last_call = "stream" /\ result.tag = "Ok"

ChunkSizesWithin(cs, limit) ==
    \A i \in 1..Len(cs) :
        /\ Len(cs[i]) <= limit
        /\ i < Len(cs) => Len(cs[i]) = limit

\* C3 as stated: for every batch_row_limit, each chunk of a non-streaming
\* response holds at most batch_row_limit rows and only the last chunk may
\* hold fewer.
C3_ChunksWithinAnyLimit ==
    ReturnedSelect => ChunkSizesWithin(result.chunks, batch_row_limit)

\* C3 amended: the bound holds for every batch_row_limit >= 1; with
\* batch_row_limit = 0 every row is put in a chunk of its own.
C3_ChunksWithinPositiveLimit ==
    ReturnedSelect =>
        /\ batch_row_limit >= 1 =>
               ChunkSizesWithin(result.chunks, batch_row_limit)
        /\ batch_row_limit = 0 =>
               \A i \in 1..Len(result.chunks) : Len(result.chunks[i]) = 1

C3_Witness ==
    /\ ReturnedSelect
    /\ batch_row_limit >= 2
    /\ Len(result.chunks) >= 2
    /\ Len(result.chunks[Len(result.chunks)]) < batch_row_limit

\* C4: a streaming call whose first pull finds the chain exhausted returns
\* (None, true).
C4_ExhaustedAtOnceIsNoneFinished ==
    (pc = "idle" /\ last_call = "stream" /\ first_pull = "none") =>
        /\ result.tag = "Ok"
        /\ ~result.has_resp
        /\ result.finished

C4_Witness ==
    /\ pc = "idle" /\ last_call = "stream" /\ first_pull = "none"
    /\ calls >= 2
    /\ pulled = source_rows /\ source_rows >= 1
    /\ result.tag = "Ok"

C6_StatsDrainedAndIndependent ==
    /\ (pc = "idle" /\ result.tag = "Ok" /\ result.has_resp) =>
           exec_stats = <<>>
    /\ reported <= pulled
    /\ (pc = "idle" /\ result.tag = "Ok" /\ result.has_resp) =>
           /\ Len(result.output_counts) = 1
           /\ reported + scanned_pending = pulled

C6_Witness ==
    /\ pc = "idle" /\ result.tag = "Ok" /\ result.has_resp
    /\ calls >= 2
    /\ SumSeq(result.output_counts) >= 1
    /\ reported > SumSeq(result.output_counts)
    /\ exec_stats = <<>>

RowsOf(cs) == {Flatten(cs)[i] : i \in 1..Len(Flatten(cs))}

\* C7: when the deadline expires between row N and row N+1, the call that
\* pulls row N+1 ends with the deadline error, and no chunk, returned or
\* under construction, holds row N+1 or a later row.
C7_NoRowPastExpiry ==
    /\ expired_at >= 0 =>
           \A r \in RowsOf(result.chunks) \cup RowsOf(chunks)
                    \cup RowsOf(<<chunk>>) : r <= expired_at
    /\ (expired_at >= 0 /\ pulled > expired_at /\ pulled > call_start) =>
           /\ pc = "idle"
           /\ result.tag = "Err"
           /\ result.cause = "deadline"

C7_Witness ==
    /\ pc = "idle"
    /\ expired_at >= 1
    /\ call_start < expired_at
    /\ pulled = expired_at + 1
    /\ result.tag = "Err" /\ result.cause = "deadline"

\* C8 as stated: once the deadline has expired no call that is running, or
\* is started afterwards, returns a successful response.
C8_NoSuccessAfterExpiry ==
    [][(deadline_expired /\ pc # "idle" /\ pc' = "idle")
           => result'.tag # "Ok"]_vars

\* C8 amended: once the deadline has expired, the step that pulls the next
\* row ends the call with the deadline error; a call returns successfully
\* after the expiry only without having pulled a row since.
C8_NextRowAfterExpiryEndsCall ==
    [][(deadline_expired /\ pc # "idle") =>
           /\ pulled' > pulled =>
                  /\ pc' = "idle"
                  /\ result'.tag = "Err"
                  /\ result'.cause = "deadline"
           /\ (pc' = "idle" /\ result'.tag = "Ok") =>
                  /\ pulled' = pulled
                  /\ pulled <= expired_at \/ pulled = call_start]_vars

C8_Witness ==
    /\ pc = "idle"
    /\ expired_at >= 0
    /\ expired_at <= call_start
    /\ pulled = call_start + 1
    /\ result.tag = "Err" /\ result.cause = "deadline"

\* C9: for a non-streaming request a Storage error of the runner is the
\* error of the request, with no response; an Evaluate error is a
\* successful Response that carries the error and no chunk data.
C9_SelectErrorPackaging ==
    (pc = "idle" /\ last_call = "request" /\ result.tag = "Err") =>
        /\ result.inner = "Storage" =>
               /\ response.tag = "Err"
               /\ ~response.has_resp
        /\ result.inner = "Evaluate" =>
               /\ response.tag = "Ok"
               /\ response.has_resp
               /\ response.error = result.cause
               /\ response.error # ""
               /\ response.chunks = <<>>

C9_Witness ==
    /\ pc = "idle" /\ last_call = "request"
    /\ result.tag = "Err" /\ result.inner = "Evaluate"
    /\ result.cause = "get_binary"
    /\ chunks # <<>>
    /\ response.tag = "Ok" /\ response.chunks = <<>>

\* C10: a deadline expiry is an error unlike the Storage and the Evaluate
\* errors (what the caller gets differs from what it gets for any of
\* those), it fails the request, and it is never carried inside a
\* successfully returned response.
C10_DeadlineIsDistinctRequestError ==
    (pc = "idle" /\ result.tag = "Err" /\ result.cause = "deadline") =>
        /\ response.tag = "Err"
        /\ response.error = ""
        /\ \A inner \in ErrorInner : \A cause \in {"next", "get_binary"} :
               /\ response # handle_qe_response(ResultErr(inner, cause))
               /\ response # handle_qe_stream_response(ResultErr(inner, cause))

----------------------------------------------------------------------------
(* C11: a failed capability check is not returned by build_handler         *)

HandlerBuilt == handler_pc = "built"

CheckFailed ==
    enable_batch_if_possible /\ ~is_streaming /\ ~check_supported_ok

\* The normal handler can be built: the evaluation config is accepted and
\* the descriptor sequence builds.
NormalBuilds ==
    /\ eval_config_ok
    /\ WellTyped(exec_descriptors)
    /\ AllCtorsOk(exec_descriptors)

\* C11: when the batch capability check fails, build_handler calls the
\* constructor of the normal handler and of no other, never returns the
\* error of the check, and succeeds, with the normal handler, exactly when
\* the normal handler can be built.
C11_CheckFailureFallsBackToNormal ==
    (HandlerBuilt /\ CheckFailed) =>
        /\ handler.constructed = {"normal"}
        /\ handler.err # "check_supported"
        /\ handler.ok <=> NormalBuilds
        /\ handler.ok => handler.kind = "normal"

\* The check failed for a plan of two descriptors and build_handler
\* returned the normal handler.
C11_Witness ==
    /\ HandlerBuilt
    /\ CheckFailed
    /\ handler.ok
    /\ handler.kind = "normal"
    /\ Len(exec_descriptors) = 2

----------------------------------------------------------------------------
(* C12: four distinct routines per integer signature, arity 2 only         *)

SigReturned == sig_pc = "returned"

\* The signatures C12 lists.
IntComparisonArithmeticSigs ==
    {"LTInt", "LEInt", "GTInt", "GEInt", "NEInt", "EQInt", "NullEQInt",
     "PlusInt", "MinusInt", "MultiplyInt", "ModInt", "IntDivideInt"}

Signedness(children) == <<children[1].unsigned, children[2].unsigned>>

TwoChildren == {c \in ChildSeqs : Len(c) = 2}

\* C12: for each of the listed integer signatures, a call with two operands
\* returns a routine, and the routine differs from the one returned for the
\* same signature with any other combination of operand signedness; a call
\* with any other number of operands returns an error.
C12_FourDistinctRoutinesArityTwo ==
    (SigReturned /\ sig_value \in IntComparisonArithmeticSigs) =>
        IF Len(sig_children) = 2
        THEN /\ sig_result.tag = "Ok"
             /\ \A other \in TwoChildren :
                    Signedness(other) # Signedness(sig_children) =>
                        LET r == map_pb_sig_to_rpn_func(sig_value, other)
                        IN r.tag = "Ok" /\ r.routine # sig_result.routine
        ELSE sig_result.tag = "Err"

\* PlusInt was dispatched for an unsigned left and a signed right operand.
C12_Witness ==
    /\ SigReturned
    /\ sig_value = "PlusInt"
    /\ Len(sig_children) = 2
    /\ Signedness(sig_children) = <<TRUE, FALSE>>
    /\ sig_result.tag = "Ok"

----------------------------------------------------------------------------
(* C13: unknown signatures and wrong arity are errors, not panics          *)

InTable(value) == value \in DOMAIN DirectSigs \cup IntSigs

\* C13: map_pb_sig_to_rpn_func returns an error, and neither panics nor
\* returns a routine, for a signature that has no arm and for a signature
\* dispatched on operand signedness that is given a number of operands
\* other than 2.
C13_UnsupportedIsError ==
    (/\ SigReturned
     /\ \/ ~InTable(sig_value)
        \/ sig_value \in IntSigs /\ Len(sig_children) # 2) =>
        /\ sig_result.tag = "Err"
        /\ sig_result.routine = <<>>

\* An integer signature was called with no operand at all, where reading
\* the first operand would be out of bounds.
C13_Witness ==
    /\ SigReturned
    /\ sig_value \in IntSigs
    /\ Len(sig_children) = 0
    /\ sig_result.tag = "Err"

----------------------------------------------------------------------------
(* C14: rows returned and rows scanned for [TableScan, Selection, Limit]   *)

PlanReturned == plan_pc = "returned"

Matching(rows) == {i \in 1..Len(rows) : rows[i]}

EnoughMatches == Cardinality(Matching(plan_rows)) >= plan_limit

\* The position in the range of the k-th row that satisfies the predicate
\* (0 for k = 0).
KthMatch(rows, k) ==
    IF k = 0
    THEN 0
    ELSE CHOOSE p \in Matching(rows) :
             Cardinality({i \in Matching(rows) : i <= p}) = k

----------------------------------------------------------------------------
(* C16: execution summaries of a response                                  *)

HandlerReturnedResponse(call) ==
    /\ handler_pc = "built"
    /\ handler_out.call = call
    /\ handler_out.ok
    /\ handler_out.has_resp

\* C16: a response of handle_request carries, when summaries are requested,
\* one summary per descriptor of the plan, the one at index i filled by the
\* stage built from descriptor i (the leaf scan first), and none when they
\* are not requested; a response of handle_streaming_request carries none.
C16_SummariesPerDescriptor ==
    /\ HandlerReturnedResponse("request") =>
           IF collect_summaries
           THEN /\ Len(handler_out.execution_summaries) =
                       Len(exec_descriptors)
                /\ \A i \in 1..Len(exec_descriptors) :
                       /\ handler_out.execution_summaries[i].stage = i
                       /\ handler_out.execution_summaries[i].tp =
                              exec_descriptors[i].tp
           ELSE handler_out.execution_summaries = <<>>
    /\ HandlerReturnedResponse("stream") =>
           handler_out.execution_summaries = <<>>

\* A second non-streaming call on a runner of two stages returned its
\* response with summaries requested.
C16_Witness ==
    /\ HandlerReturnedResponse("request")
    /\ collect_summaries
    /\ handler_calls = 2
    /\ Len(handler_out.execution_summaries) = 2

----------------------------------------------------------------------------
(* C17: the split key of a region that spans tables                        *)

SplitChecked == split_pc = "done"

\* The first ENCODED_TABLE_TABLE_PREFIX bytes of a table key name its table.
TableOf(key) == Take(key, 10)

\* The encoded table prefix of the table of a table key, from its table id.
TablePrefixOf(key) == encode_bytes(gen_table_prefix(key[10]))

StartTable ==
    IF is_table_key(region_start) THEN {TableOf(region_start)} ELSE {}

StoredTableKeys == {k \in db : is_table_key(k)}

SpansTables ==
    Cardinality(StartTable \cup {TableOf(k) : k \in StoredTableKeys}) >= 2

\* The stored keys of tables other than the table of the region's start.
AfterStartTable ==
    {k \in StoredTableKeys : TableOf(k) \notin StartTable}

Least(S) == CHOOSE k \in S : \A o \in S : ~BytesLess(o, k)

Greatest(S) == CHOOSE k \in S : \A o \in S : ~BytesLess(k, o)

DecidedFromLastKey ==
    /\ Len(region_start) >= TABLE_PREFIX_KEY_LEN
    /\ is_table_key(Greatest(db))

----------------------------------------------------------------------------
(* C18: regions for which no split key is emitted                          *)

\* The key sorts before every key that starts with TABLE_PREFIX.
BeforeTables(key) == BytesLess(key, TABLE_PREFIX)

\* The key sorts after every key that starts with TABLE_PREFIX.
AfterTables(key) == key # <<>> /\ BytesLess(TABLE_PREFIX, <<Head(key)>>)

AllDataInStartTable ==
    /\ db # {}
    /\ is_table_key(region_start)
    /\ \A k \in db : is_table_key(k) /\ TableOf(k) = TableOf(region_start)

OutsideTables ==
    /\ db # {}
    /\ \/ BeforeTables(region_start) /\ BeforeTables(Greatest(db))
       \/ AfterTables(region_start) /\ AfterTables(Greatest(db))

\* C18: no split key is found, at any point of the check, when all data of
\* the region lies in the one table that contains the region's start key,
\* when the region holds no data, or when the region's start key and its
\* last stored key both lie before, or both lie after, the table key space.
C18_NoSplitKey ==
    (AllDataInStartTable \/ db = {} \/ OutsideTables) =>
        /\ checker.split_key = None
        /\ split_out = None
        /\ split_pc # "panic"

\* A region that starts in a table and ends in a later one, with keys of
\* the first table only, was checked.
C18_Witness ==
    /\ SplitChecked
    /\ AllDataInStartTable
    /\ is_table_key(region_end)
    /\ ~is_same_table(region_start, region_end)
    /\ Cardinality(db) = 2

----------------------------------------------------------------------------
(* C19: the chunks of handle_request hold the pulled rows, in order        *)

\* The rows pulled by the current call, in pull order.
PulledInCall == [i \in 1..(pulled - call_start) |-> call_start + i]

\* C19: when handle_request returns its response, the chunks, taken in
\* order and joined, are the rows the call pulled from the executor, in
\* pull order, each once.
C19_ChunksAreThePulledRows ==
    ReturnedSelect => Flatten(result.chunks) = PulledInCall

\* A response of more than one chunk was returned for three rows or more.
C19_Witness ==
    /\ ReturnedSelect
    /\ Len(result.chunks) >= 2
    /\ Len(PulledInCall) >= 3
    /\ batch_row_limit >= 2

----------------------------------------------------------------------------
(* C20: streaming calls repeated until finished deliver every row once     *)

AllRows == [i \in 1..source_rows |-> i]

\* C20: when successful streaming calls are made on a runner until one
\* reports finished, the chunks returned, joined in call order, are all the
\* rows the executor produces, in order, none lost and none twice.
C20_StreamingDeliversAllRows ==
    stream_run = "finished" => delivered = AllRows

----------------------------------------------------------------------------
(* C21: finished is reported only after the executor is exhausted          *)

\* C21: when handle_streaming_request returns successfully with finished
\* set, the executor returned no row during that call, and no row of the
\* source is left unread; this for every batch_row_limit.
C21_FinishedOnlyWhenExhausted ==
    (ReturnedStream /\ result.finished) =>
        /\ finished
        /\ first_pull # ""
        /\ pulled = source_rows

----------------------------------------------------------------------------
(* C22: repeated streaming calls finish within a bounded number of calls   *)

Ceil(n, d) == (n + d - 1) \div d

\* C22: over a source of n rows, without errors and with batch_row_limit
\* at least 1, repeated calls of handle_streaming_request eventually report
\* finished, and one of the first ceil(n / batch_row_limit) + 1 calls does.
C22_StreamingFinishesWithinBound ==
    /\ (batch_row_limit >= 1) => <>(stream_run = "finished")
    /\ []((/\ batch_row_limit >= 1
           /\ pc = "idle"
           /\ calls >= Ceil(source_rows, batch_row_limit) + 1) =>
              stream_run = "finished")

\* Four rows were read two per call and the third call reported finished.
C22_Witness ==
    /\ stream_run = "finished"
    /\ batch_row_limit = 2
    /\ source_rows = 4
    /\ calls = 3
    /\ delivered = AllRows

----------------------------------------------------------------------------
(* C23: what handle_qe_stream_response makes of errors and of (None, _)   *)

QeReturned == qe_pc = "returned"

\* C23: handle_qe_stream_response returns an evaluation error as
\* (Some(response carrying the error), finished = true), a storage error as
\* the error of the request, and a successful (None, finished) as
\* (None, finished) with the same flag.
C23_StreamErrorPackaging ==
    QeReturned =>
        /\ (qe_result.tag = "Err" /\ qe_result.inner = "Evaluate") =>
               /\ qe_response.tag = "Ok"
               /\ qe_response.has_resp
               /\ qe_response.error = qe_result.cause
               /\ qe_response.error # ""
               /\ qe_response.chunks = <<>>
               /\ qe_response.finished
        /\ (qe_result.tag = "Err" /\ qe_result.inner = "Storage") =>
               /\ qe_response.tag = "Err"
               /\ ~qe_response.has_resp
        /\ (qe_result.tag = "Ok" /\ ~qe_result.has_resp) =>
               /\ qe_response.tag = "Ok"
               /\ ~qe_response.has_resp
               /\ qe_response.error = ""
               /\ qe_response.finished = qe_result.finished

C23_Witness ==
    /\ QeReturned
    /\ qe_result = [NoResult EXCEPT !.tag = "Ok"]
    /\ qe_response = [NoResponse EXCEPT !.tag = "Ok"]

----------------------------------------------------------------------------
(* C24, C25: the strategy build_handler selects                            *)

BatchSelected == handler.constructed = {"batch"}

NormalSelected == handler.constructed = {"normal"}

\* C24: build_handler selects the batch handler exactly when
\* enable_batch_if_possible is true, is_streaming is false and the
\* capability check succeeds, and the normal handler in every other case;
\* a streaming request never gets the batch handler.
C24_BatchExactlyWhenEnabledUnaryAndSupported ==
    HandlerBuilt =>
        /\ BatchSelected <=>
               (enable_batch_if_possible /\ ~is_streaming
                    /\ check_supported_ok)
        /\ ~BatchSelected => NormalSelected
        /\ is_streaming => (NormalSelected /\ handler.kind # "batch")

C24_Witness ==
    /\ HandlerBuilt
    /\ enable_batch_if_possible /\ is_streaming /\ check_supported_ok
    /\ NormalSelected
    /\ handler.ok /\ handler.kind = "normal"

BatchCtorFailed ==
    /\ enable_batch_if_possible /\ ~is_streaming /\ check_supported_ok
    /\ ~batch_new_ok

\* C25: every call of build_handler constructs exactly one handler, and
\* when the capability check has passed and the batch handler cannot be
\* constructed, that failure is what the call returns: the normal handler
\* is not constructed.
C25_OneStrategyPerRequest ==
    HandlerBuilt =>
        /\ Cardinality(handler.constructed) = 1
        /\ BatchCtorFailed =>
               /\ ~handler.ok
               /\ handler.err = "BatchDAGHandler::new"
               /\ handler.constructed = {"batch"}

C25_Witness ==
    /\ HandlerBuilt
    /\ BatchCtorFailed
    /\ NormalBuilds
    /\ ~handler.ok
    /\ handler.constructed = {"batch"}

----------------------------------------------------------------------------
(* C26: the chain build_executors returns is linear                        *)

\* C26: a chain returned by build_executors has one stage per descriptor;
\* its innermost stage is a leaf scan, built from the first descriptor and
\* owning no other stage; the stage built from every later descriptor owns
\* exactly the stage built from the descriptor before it.
C26_ChainIsLinear ==
    (Built /\ build_result.ok) =>
        LET executor == build_result.executor
        IN /\ Len(executor) = Len(exec_descriptors)
           /\ Len(executor) >= 1
           /\ executor[1].tp \in ScanKinds
           /\ executor[1].tp = exec_descriptors[1].tp
           /\ executor[1].child = 0
           /\ \A i \in 2..Len(executor) :
                  /\ executor[i].tp = exec_descriptors[i].tp
                  /\ executor[i].child = i - 1

C26_Witness ==
    /\ Built
    /\ build_result.ok
    /\ Len(build_result.executor) = 3
    /\ build_result.executor[3].child = 2
    /\ build_result.executor[2].child = 1
    /\ build_result.executor[1].child = 0

----------------------------------------------------------------------------
(* C27: signatures that are not dispatched on operand signedness           *)

NotThroughMapIntSig == sig_value \notin IntSigs

\* What map_pb_sig_to_rpn_func returns for the signature of the call is
\* the same for every operand list.
SameForEveryOperandList ==
    \A children \in ChildSeqs :
        map_pb_sig_to_rpn_func(sig_value, children) = sig_result

\* C27 as stated: for every signature that is not dispatched through
\* map_int_sig, the call returns the same routine for every operand list
\* and never fails.
C27_DirectForEverySignature ==
    (SigReturned /\ NotThroughMapIntSig) =>
        /\ sig_result.tag = "Ok"
        /\ SameForEveryOperandList

\* C27, amended: for a signature that is not dispatched through
\* map_int_sig the result depends on the signature only; it is a routine,
\* and the call does not fail, exactly when the signature has an arm of its
\* own, and it is the error of an unsupported signature otherwise.
C27_DirectForSignaturesWithAnArm ==
    (SigReturned /\ NotThroughMapIntSig) =>
        /\ SameForEveryOperandList
        /\ sig_value \in DOMAIN DirectSigs =>
               /\ sig_result.tag = "Ok"
               /\ sig_result.routine = DirectSigs[sig_value]
        /\ sig_value \notin DOMAIN DirectSigs =>
               /\ sig_result.tag = "Err"
               /\ sig_result.routine = <<>>

C27_Witness ==
    /\ SigReturned
    /\ sig_value = "LTReal"
    /\ sig_children = <<>>
    /\ sig_result.tag = "Ok"
    /\ sig_result = map_pb_sig_to_rpn_func("LTReal",
                        <<[unsigned |-> TRUE], [unsigned |-> FALSE]>>)

----------------------------------------------------------------------------
(* C28: the shape of the chunks of a handle_request response               *)

NoChunkEmpty(cs) == \A i \in 1..Len(cs) : cs[i] # <<>>

FullButLast(cs, limit) == \A i \in 1..(Len(cs) - 1) : Len(cs[i]) = limit

ZeroRowsZeroChunks ==
    PulledInCall = <<>> => result.chunks = <<>>

\* C28 as stated: in every response of handle_request no chunk is empty,
\* every chunk but the last holds exactly batch_row_limit rows, and a
\* source that yields no row gives a response without chunks.
C28_ChunkShapeAnyLimit ==
    ReturnedSelect =>
        /\ NoChunkEmpty(result.chunks)
        /\ FullButLast(result.chunks, batch_row_limit)
        /\ ZeroRowsZeroChunks

\* C28, amended: no chunk is empty and a source that yields no row gives a
\* response without chunks, whatever batch_row_limit; every chunk but the
\* last holds exactly batch_row_limit rows when batch_row_limit >= 1, and
\* every chunk holds exactly one row when batch_row_limit = 0.
C28_ChunkShapePositiveLimit ==
    ReturnedSelect =>
        /\ NoChunkEmpty(result.chunks)
        /\ ZeroRowsZeroChunks
        /\ batch_row_limit >= 1 =>
               FullButLast(result.chunks, batch_row_limit)
        /\ batch_row_limit = 0 =>
               \A i \in 1..Len(result.chunks) : Len(result.chunks[i]) = 1

\* A response of two full chunks and nothing else.
C28_Witness ==
    /\ ReturnedSelect
    /\ batch_row_limit = 2
    /\ Len(result.chunks) = 2
    /\ Len(result.chunks[1]) = 2
    /\ Len(result.chunks[2]) = 2

----------------------------------------------------------------------------
(* C29: on_kv once the checker holds a split key                           *)

Fed == ck_fed # <<>>

\* C29: an on_kv call on a checker that holds a split key returns true and
\* leaves the split key and the first table prefix as they were, whatever
\* the key; every on_kv call returns true exactly when the checker holds a
\* split key after it.
C29_OnKvFrameOnceSplitKeyHeld ==
    Fed =>
        /\ ck_before.split_key # None =>
               /\ ck_ret
               /\ ck_self.split_key = ck_before.split_key
               /\ ck_self.first_encoded_table_prefix =
                      ck_before.first_encoded_table_prefix
        /\ ck_ret <=> (ck_self.split_key # None)

\* A checker that found its split key in the first key of table 1 was fed a
\* key of table 2 and then a key that is not a table key.
C29_Witness ==
    /\ ck_created = NewChecker(None, None)
    /\ ck_fed = <<encode_bytes(gen_row_key(1, 1)),
                  encode_bytes(gen_row_key(2, 1)),
                  encode_bytes(RawAfterData)>>
    /\ ck_ret
    /\ ck_self.split_key = Some(encode_bytes(gen_table_prefix(1)))

----------------------------------------------------------------------------
(* C30: a checker created with a first table prefix and no split key       *)

CreatedWithFirstPrefix ==
    /\ ck_created.first_encoded_table_prefix # None
    /\ ck_created.split_key = None

\* The fed key belongs to the table of the first prefix.
OfFirstTable(key) ==
    is_same_table(ck_created.first_encoded_table_prefix[1], key)

\* The keys were fed in ascending order, none before the first prefix.
FedInOrder ==
    /\ \A i \in 1..Len(ck_fed) :
           ~BytesLess(ck_fed[i], ck_created.first_encoded_table_prefix[1])
    /\ \A i \in 1..(Len(ck_fed) - 1) : BytesLess(ck_fed[i], ck_fed[i + 1])

\* The position of the first fed key that satisfies P, 0 if there is none.
FirstFed(P(_)) ==
    IF \E i \in 1..Len(ck_fed) : P(ck_fed[i])
    THEN CHOOSE i \in 1..Len(ck_fed) :
             /\ P(ck_fed[i])
             /\ \A j \in 1..(i - 1) : ~P(ck_fed[j])
    ELSE 0

OtherTable(key) == ~OfFirstTable(key)

\* The key belongs to another table: it has an encoded table prefix.
OtherTableKey(key) ==
    ~OfFirstTable(key) /\ to_encoded_table_prefix(key) # None

----------------------------------------------------------------------------
(* C31: a checker created with neither a first prefix nor a split key      *)

CreatedEmpty ==
    /\ ck_created.first_encoded_table_prefix = None
    /\ ck_created.split_key = None

\* The stored key is a row key of some table.
RowKeyOfATable(key) ==
    \E t \in TableIds, h \in RowHandles : key = encode_bytes(gen_row_key(t, h))

----------------------------------------------------------------------------
(* C32: split_keys returns at most one key and consumes it                 *)

IsTake(i) == ck_ops[i].op = "split_keys"

\* C32: every call of split_keys returns at most one key, the split key
\* the checker held, and leaves the checker without split key; a call of
\* split_keys that follows another with no on_kv in between returns no key.
C32_SplitKeysTakesTheKey ==
    /\ \A i \in 1..Len(ck_ops) : IsTake(i) => Len(ck_ops[i].keys) <= 1
    /\ \A i \in 1..(Len(ck_ops) - 1) :
           (IsTake(i) /\ IsTake(i + 1)) => ck_ops[i + 1].keys = <<>>
    /\ (ck_ops # <<>> /\ IsTake(Len(ck_ops))) =>
           /\ ck_ops[Len(ck_ops)].keys = ck_before.split_key
           /\ ck_self.split_key = None

\* The first split_keys returned the key found by on_kv, the second call
\* right after it returned nothing.
C32_Witness ==
    /\ Len(ck_ops) = 3
    /\ ck_ops[1].op = "on_kv"
    /\ IsTake(2) /\ IsTake(3)
    /\ Len(ck_ops[2].keys) = 1
    /\ ck_ops[3].keys = <<>>

----------------------------------------------------------------------------
(* C33: the out-of-order arm of add_checker                                *)

AddDone == add_pc # "ready"

\* The start key is bytewise less than or equal to the last stored key.
StartNotAfterLastKey == ~BytesLess(add_end_key, add_start_key)

\* C33: add_checker does not reach its "out of order" panic when the start
\* key of the region is bytewise less than or equal to the last stored key.
C33_NoPanicWhenStartNotAfterLastKey ==
    (AddDone /\ StartNotAfterLastKey) => add_pc # "panic"

\* The match was reached with a start key in table 1 and a last key after
\* the table key space, and a checker was added.
C33_Witness ==
    /\ add_pc = "returned"
    /\ StartNotAfterLastKey
    /\ add_start_key = encode_bytes(gen_table_prefix(1))
    /\ add_end_key = encode_bytes(RawAfterData)
    /\ added = NewChecker(Some(encode_bytes(gen_table_prefix(1))), None)

----------------------------------------------------------------------------
(* C34: where the split keys of the table split check lie                  *)

EncodedTablePrefixes == {encode_bytes(gen_table_prefix(t)) : t \in TableIds}

\* The split keys the check has produced: the one the checker holds and the
\* one taken from it.
ProducedSplitKeys ==
    {k \in StoredKeys \cup EncodedTablePrefixes :
        checker.split_key = Some(k) \/ split_out = Some(k)}

SplitKeyProduced == checker.split_key # None \/ split_out # None

\* C34: every split key the table split check produces, whether add_checker
\* sets it or on_kv finds it in the scan of the region, is an encoded table
\* prefix, strictly greater than the start key of the region and not
\* greater than the last stored key of the region.
C34_SplitKeyIsTablePrefixInsideRegion ==
    SplitKeyProduced =>
        /\ ProducedSplitKeys # {}
        /\ \A k \in ProducedSplitKeys :
               /\ k \in EncodedTablePrefixes
               /\ BytesLess(region_start, k)
               /\ ~BytesLess(Greatest(db), k)

\* A region that starts inside table 1 and ends after the table key space:
\* the scan found the split key at the first row of table 2.
C34_Witness ==
    /\ SplitChecked
    /\ region_start = encode_bytes(gen_row_key(1, 2))
    /\ checker.first_encoded_table_prefix =
           Some(encode_bytes(gen_table_prefix(1)))
    /\ encode_bytes(RawAfterData) \in db
    /\ encode_bytes(gen_row_key(3, 1)) \in db
    /\ split_out = Some(encode_bytes(gen_table_prefix(2)))

====
